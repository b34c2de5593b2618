----------------------------- MODULE MediaCache -----------------------------
(***************************************************************************)
(* Media (matrix/media.rs): attachments are uploaded and then announced in *)
(* a message (matrix/room/joined.rs); their file and thumbnail are fetched *)
(* through a cache in the client's store, keyed by source and format, and  *)
(* removed from it.  A fetch may be under way while its entry is removed.  *)
(*                                                                         *)
(* Sources are numbered as they are uploaded.  None is encrypted: the      *)
(* feature is not enabled.                                                 *)
(***************************************************************************)
EXTENDS Naturals, FiniteSets

CONSTANTS
  MediaTasks, \* tasks that call
  MaxSources  \* uploads

ASSUME SourcesAssumption == MaxSources \in Nat

Sources == 1 .. MaxSources
NoSource == 0

Formats == {"file", "thumbnail"}
Keys == Sources \X Formats

VARIABLES
  sources,  \* how many have been uploaded
  posted,   \* the attachments in messages, with their source and thumbnail
  cache,    \* the keys of what the client's store has
  job,      \* where a task is
  draft,    \* the attachment it prepares
  fetch,    \* the key it fetches, and whether for the cache
  dropped   \* history: keys that were removed, not asked for since, and not
            \* being fetched when they were removed

mediaVars == <<sources, posted, cache, job, draft, fetch, dropped>>

Attachment == [source : Sources \cup {NoSource}, thumbnail : Sources \cup {NoSource}]
NoDraft == [source |-> NoSource, thumbnail |-> NoSource]
NoFetch == [key |-> <<NoSource, "file">>, store |-> FALSE]

Job(t, j) == job' = [job EXCEPT ![t] = j]

----------------------------------------------------------------------------
(* Sending.                                                                *)

\* prepare_attachment_message: the thumbnail first, if there is one.
SendAttachment(t) ==
  /\ job[t] = "idle"
  /\ Job(t, "thumbnail") \/ Job(t, "file")
  /\ UNCHANGED <<sources, posted, cache, draft, fetch, dropped>>

Uploaded(t) ==
  /\ job[t] \in {"thumbnail", "file"} /\ sources < MaxSources
  /\ sources' = sources + 1
  /\ IF job[t] = "thumbnail"
     THEN draft' = [draft EXCEPT ![t].thumbnail = sources'] /\ Job(t, "file")
     ELSE draft' = [draft EXCEPT ![t].source = sources'] /\ Job(t, "send")
  /\ UNCHANGED <<posted, cache, fetch, dropped>>

MessageSent(t) ==
  /\ job[t] = "send"
  /\ posted' = posted \cup {draft[t]}
  /\ draft' = [draft EXCEPT ![t] = NoDraft]
  /\ Job(t, "idle")
  /\ UNCHANGED <<sources, cache, fetch, dropped>>

\* An upload or the message fails; what is uploaded stays.
SendingFails(t) ==
  /\ job[t] \in {"thumbnail", "file", "send"}
  /\ draft' = [draft EXCEPT ![t] = NoDraft]
  /\ Job(t, "idle")
  /\ UNCHANGED <<sources, posted, cache, fetch, dropped>>

----------------------------------------------------------------------------
(* Fetching and removing.                                                  *)

\* thumbnail_source of the base client: an image without a thumbnail is its own.
ThumbnailSource(a) == IF a.thumbnail = NoSource THEN a.source ELSE a.thumbnail

File(a) == <<a.source, "file">>
Thumbnail(a) == <<ThumbnailSource(a), "thumbnail">>

\* get_media_content
Get(t, key, useCache) ==
  /\ job[t] = "idle"
  /\ dropped' = dropped \ {key}
  /\ IF useCache /\ key \in cache
     THEN UNCHANGED <<job, fetch>>
     ELSE Job(t, "fetch") /\ fetch' = [fetch EXCEPT ![t] = [key |-> key, store |-> useCache]]
  /\ UNCHANGED <<sources, posted, cache, draft>>

GetFile(t, a, useCache) == Get(t, File(a), useCache)
GetThumbnail(t, a, useCache) == Get(t, Thumbnail(a), useCache)

Fetched(t) ==
  /\ job[t] = "fetch"
  /\ cache' = IF fetch[t].store THEN cache \cup {fetch[t].key} ELSE cache
  /\ fetch' = [fetch EXCEPT ![t] = NoFetch]
  /\ Job(t, "idle")
  /\ UNCHANGED <<sources, posted, draft, dropped>>

FetchFails(t) ==
  /\ job[t] = "fetch"
  /\ fetch' = [fetch EXCEPT ![t] = NoFetch]
  /\ Job(t, "idle")
  /\ UNCHANGED <<sources, posted, cache, draft, dropped>>

BeingFetched(key) == \E t \in MediaTasks : job[t] = "fetch" /\ fetch[t].key = key

Remove_Keeps(keys, meant) ==
  /\ UNCHANGED cache
  /\ dropped' = dropped \cup { key \in meant : ~BeingFetched(key) }
  /\ UNCHANGED <<sources, posted, job, draft, fetch>>

\* Some keys are removed, by a call that is meant to remove these.
Remove(keys, meant) ==
  /\ cache' = cache \ keys
  /\ dropped' = dropped \cup { key \in meant : ~BeingFetched(key) }
  /\ UNCHANGED <<sources, posted, job, draft, fetch>>

RemoveFile(a) == Remove({File(a)}, {File(a)})

\* remove_thumbnail takes the file's source.  What it is meant to remove is
\* only stated where that is the thumbnail's, too.
RemoveThumbnail(a) ==
  LET key == <<a.source, "thumbnail">> IN Remove({key}, {key} \cap {Thumbnail(a)})

RemoveForUri(source) == Remove({source} \X Formats, {source} \X Formats)

MediaInit ==
  /\ sources = 0 /\ posted = {} /\ cache = {}
  /\ job = [t \in MediaTasks |-> "idle"]
  /\ draft = [t \in MediaTasks |-> NoDraft]
  /\ fetch = [t \in MediaTasks |-> NoFetch]
  /\ dropped = {}

MediaNext ==
  \/ \E t \in MediaTasks :
       \/ SendAttachment(t) \/ Uploaded(t) \/ MessageSent(t) \/ SendingFails(t)
       \/ \E a \in posted, useCache \in BOOLEAN :
            GetFile(t, a, useCache) \/ GetThumbnail(t, a, useCache)
       \/ Fetched(t) \/ FetchFails(t)
  \/ \E a \in posted : RemoveFile(a) \/ RemoveThumbnail(a)
  \/ \E source \in 1 .. sources : RemoveForUri(source)

MediaSpec == MediaInit /\ [][MediaNext]_mediaVars

----------------------------------------------------------------------------
MediaTypeOK ==
  /\ sources \in 0 .. MaxSources
  /\ posted \subseteq Attachment
  /\ cache \subseteq Keys /\ dropped \subseteq Keys
  /\ job \in [MediaTasks -> {"idle", "thumbnail", "file", "send", "fetch"}]
  /\ draft \in [MediaTasks -> Attachment]
  /\ fetch \in [MediaTasks -> [key : (Sources \cup {NoSource}) \X Formats, store : BOOLEAN]]

\* What was removed from the cache comes back only through a call that asks
\* for it afterwards, or had asked before; and what can be asked for was
\* uploaded before it was announced.
RemovedIsGone ==
  /\ dropped \cap cache = {}
  /\ \A a \in posted : a.source \in 1 .. sources /\ a.thumbnail \in 0 .. sources
==============================================================================
