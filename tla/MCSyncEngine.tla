---------------------------- MODULE MCSyncEngine ----------------------------
(* Instances of SyncEngine for TLC: items /p, /p/x and /q. *)
EXTENDS SyncEngine, TLC

CONSTANTS a1, a2, a3, p, px, q, root, actions, transfers

MCTags == {p, px, q, root}
\* "/p/x" starts with "/p", and everything starts with "/".
MCPrefix == {<<p, px>>, <<root, p>>, <<root, px>>, <<root, q>>}
MCCategories == {actions, transfers}
MCNoBudget == actions :> 0 @@ transfers :> 0
MCOneTransfer == actions :> 0 @@ transfers :> 1

\* Categories follow from the class.
MCCategoriesOf ==
    [a \in Actions |-> IF Cancellable(ClassOf[a]) THEN {transfers} ELSE {actions}]

\* The instances use the first one, two or three actions.
First(x, y, z) == Restrict(a1 :> x @@ a2 :> y @@ a3 :> z, Actions)

\* A folder, an item in it, and the folder again.
MCFolderTwice == First({p, root}, {px, root}, {p})
\* A folder, an item in it, and another item.
MCApart == First({p}, {px}, {q})
\* The same item twice, then its folder.
MCSame == First({px}, {px}, {p})

MCDeleteUploadCreate == First("delete", "upload", "createFolder")
MCDownloadLocal == First("download", "localDelete", "localUpdate")
MCFolderUploads == First("createFolder", "upload", "upload")
MCUploadsMove == First("upload", "upload", "copyMove")
=============================================================================
