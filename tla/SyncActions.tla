---------------------------- MODULE SyncActions ----------------------------
(***************************************************************************)
(* What the sync actions (Core/Sync/Actions) answer the sync engine when   *)
(* they are scheduled, when the response to their request arrives and when *)
(* the user answers one of their issues.  Only what the engine sees is     *)
(* kept: the record's new state, a wait condition, whether the result      *)
(* handler is called, and the instruction for the engine.                  *)
(*                                                                         *)
(* Not modelled: an action that lacks its parameters, which the API cannot *)
(* submit, and errors of the local database.                               *)
(***************************************************************************)

Classes == {"delete", "localDelete", "copyMove", "createFolder", "update",
            "localUpdate", "upload", "download"}

\* What -preflightWithContext: of each action can lead to: a queued record, an
\* error, or a record that is not needed and removes itself.  A "localUpdate"
\* changes local attributes only.
DownloadPreflights == {"ready", "satisfied"}
CopyMovePreflights == {"ready", "refused"}
UpdatePreflights(class) ==
    IF class = "update" THEN {"ready", "refused"} ELSE {"refused", "satisfied"}
DeletePreflights == {"ready"}
LocalDeletePreflights == {"ready"}
CreateFolderPreflights == {"ready"}
UploadPreflights == {"ready"}

Preflights(class) ==
    CASE class = "download" -> DownloadPreflights
      [] class = "copyMove" -> CopyMovePreflights
      [] class \in {"update", "localUpdate"} -> UpdatePreflights(class)
      [] class = "delete" -> DeletePreflights
      [] class = "localDelete" -> LocalDeletePreflights
      [] class = "createFolder" -> CreateFolderPreflights
      [] class = "upload" -> UploadPreflights

\* A record that is not needed has its result handler called by the download,
\* but not by the update.
CallsHandlerWhenSatisfied(class) == class = "download"

\* What -scheduleWithContext: of each action can lead to: a request, an issue
\* for the user (before or after the record counts as in progress), nothing
\* left to do ("obsolete": the record is descheduled), or completion on the spot.
DownloadSchedules == {"request", "askReady", "obsolete"}
UploadSchedules == {"request", "ask"}
LocalDeleteSchedules == {"immediate"}
DeleteSchedules == {"request"}
CopyMoveSchedules == {"request"}
CreateFolderSchedules == {"request"}
UpdateSchedules == {"request"}

Schedules(class) ==
    CASE class = "download" -> DownloadSchedules
      [] class = "upload" -> UploadSchedules
      [] class = "localDelete" -> LocalDeleteSchedules
      [] class = "delete" -> DeleteSchedules
      [] class = "copyMove" -> CopyMoveSchedules
      [] class = "createFolder" -> CreateFolderSchedules
      [] class \in {"update", "localUpdate"} -> UpdateSchedules

\* The responses an action tells apart.  "network" is a failure of the
\* connection, "cancelled" the response to a cancelled request, "rejected" a
\* file that arrived but is not used: its checksum is wrong, or the local copy
\* was modified meanwhile.
Responses(class) ==
    {"ok", "error"}
        \cup (IF class = "copyMove" THEN {"network"} ELSE {})
        \cup (IF class \in {"upload", "download"} THEN {"cancelled"} ELSE {})
        \cup (IF class = "download" THEN {"rejected"} ELSE {})

Outcome(state, wait, call, next) ==
    [state |-> state, wait |-> wait, call |-> call, next |-> next]

Done == Outcome("completed", "none", TRUE, "deleteLast")

\* Mutant: the action does not call its result handler.
ResultsHandlerForgotten(class, response) ==
    IF response = "ok"
    THEN {Outcome("completed", "none", FALSE, "deleteLast")}
    ELSE {Outcome("processing", "issue", TRUE, "none")}

\* The record waits for the user to answer an issue, and its caller is told.
Ask == Outcome("processing", "issue", TRUE, "none")

\* What -handleResultWithContext: of each action can do with a response.
CreateFolderResults(response) == IF response = "ok" THEN {Done} ELSE {Ask}

\* The caller of an update learns of an error only when it has been resolved.
UpdateResults(response) ==
    IF response = "ok" THEN {Done} ELSE {[Ask EXCEPT !.call = FALSE]}

\* An item that is gone needs no deleting.
DeleteResults(response) == IF response = "ok" THEN {Done} ELSE {Ask, Done}

UploadResults(response) ==
    CASE response = "ok" -> {Done}
      [] response = "cancelled" -> {Outcome("removed", "none", TRUE, "processNext")}
      [] OTHER -> {Ask}

CopyMoveResults(response) ==
    CASE response = "ok" -> {Done}
      [] response = "network" -> {Outcome("ready", "none", TRUE, "stop")}
      [] OTHER -> {Ask}

\* A file that is not used has its issue attached to the record that is then
\* deleted.  On an error the user is asked; a file that changed is waited for;
\* a download that keeps an item available offline gives up without a word to
\* its caller.
DownloadResults(response) ==
    CASE response \in {"ok", "cancelled"} -> {Done}
      [] response = "rejected" -> {Outcome("completed", "issue", TRUE, "deleteLast")}
      [] OTHER -> {[Ask EXCEPT !.call = FALSE],
                    Outcome("ready", "refresh", FALSE, "none"),
                    [Done EXCEPT !.call = FALSE]}

Results(class, response) ==
    CASE class = "createFolder" -> CreateFolderResults(response)
      [] class = "update" -> UpdateResults(response)
      [] class = "delete" -> DeleteResults(response)
      [] class = "upload" -> UploadResults(response)
      [] class = "copyMove" -> CopyMoveResults(response)
      [] class = "download" -> DownloadResults(response)
      [] OTHER -> {}     \* it sends no request

\* Actions whose issues offer a choice that reschedules the record (retry,
\* force delete, keep both, replace, overwrite) next to cancelling it.
OffersRetry(class) == class \in {"delete", "upload", "download"}

\* Whether the progress an action returns can be cancelled.
Cancellable(class) == class \in {"upload", "download"}
=============================================================================
