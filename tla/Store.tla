-------------------------------- MODULE Store --------------------------------
(* One collection of the Store (config.rs), the list of session              *)
(* configurations: a mutex-guarded list in memory and a JSON file that is    *)
(* rewritten whole on every change.  A change is made in memory first and    *)
(* stays there when writing the file fails.  Lists are taken as sets: which  *)
(* configurations there are, not their order or contents.                    *)
(*                                                                           *)
(* A call holds the mutex from the change in memory to the end of the write, *)
(* so only a crash can come in between.                                      *)

CONSTANT Uid   \* configurations

VARIABLES
    store,    \* the list in memory
    disk,     \* the list in the file
    promised  \* what has become of what the last call that changed a
              \* configuration answered (history)

storeVars == <<store, disk, promised>>

(* The answer was that it is kept, that it is gone, or an error (open).  One *)
(* that was kept may be in a file that could not be read (unread), and is    *)
(* lost when that file is written over.                                      *)
Promises == {"kept", "gone", "open", "unread", "lost"}

StoreTypeOK ==
    /\ store \subseteq Uid
    /\ disk \subseteq Uid
    /\ promised \in [Uid -> Promises]

StoreInit ==
    /\ store = Uid
    /\ disk = Uid
    /\ promised = [u \in Uid |-> "kept"]

-----------------------------------------------------------------------------
(* save_json: a temporary file is written and renamed, and what was in the   *)
(* old file is no more.  If either fails the old file is still there, and    *)
(* the caller gets the error.                                                *)
SaveJson(list, us, what) ==
    /\ disk' = list
    /\ promised' = [u \in Uid |-> CASE u \in us -> what
                                    [] u \notin us /\ promised[u] = "unread" -> "lost"
                                    [] OTHER -> promised[u]]

SaveJsonFails(us) ==
    /\ promised' = [u \in Uid |-> IF u \in us THEN "open" ELSE promised[u]]
    /\ UNCHANGED disk

(* save_session for a new or an existing configuration                       *)
SaveSession(u) ==
    /\ store' = store \cup {u}
    /\ SaveJson(store', {u}, "kept") \/ SaveJsonFails({u})

(* delete_sessions; what is not in the list is passed over.                  *)
DeleteSessions(us) ==
    /\ store' = store \ us
    /\ SaveJson(store', us, "gone") \/ SaveJsonFails(us)

(* reorder_sessions drops and adds nothing, and writes the file.             *)
ReorderSessions ==
    /\ SaveJson(store, {}, "open") \/ SaveJsonFails({})
    /\ UNCHANGED store

(* What a crash of the program, in the middle of a write or not, leaves of   *)
(* the file: all of it, since a write goes to the temporary file.  Writing   *)
(* in place would leave half a file, with nothing in it to be read.          *)
AfterCrashInPlace == {disk, {}}
AfterCrash == {disk}

(* load_json: a file that cannot be read, or does not parse, is taken for an *)
(* empty list and left as it is.                                             *)
LoadJson ==
    /\ store' = disk'
    /\ promised' = [u \in Uid |-> IF promised[u] = "unread" THEN "kept" ELSE promised[u]]

LoadJsonFails ==
    /\ store' = {}
    /\ promised' = [u \in Uid |-> IF promised[u] = "kept" THEN "unread" ELSE promised[u]]

(* Store::open in the next process                                           *)
Reopen == disk' \in AfterCrash /\ (LoadJson \/ LoadJsonFails)

-----------------------------------------------------------------------------
(* What a call has answered holds over failing writes, crashes and restarts  *)
(* for as long as the file can be read: a configuration that was saved is in *)
(* memory and in the file, one that was deleted in neither, until another    *)
(* call changes it.  A start that cannot read the file shows none of them    *)
(* and costs none: those that were kept are still in the file, and are back  *)
(* after a start that can.  But the first change that is written before that *)
(* destroys them all.                                                        *)
AcknowledgedSurvives ==
    \A u \in Uid :
        /\ promised[u] = "kept" => u \in store \cap disk
        /\ promised[u] = "unread" => u \in disk \ store
        /\ promised[u] \in {"gone", "lost"} => u \notin store \cup disk

=============================================================================
