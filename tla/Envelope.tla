------------------------------- MODULE Envelope --------------------------------
(***************************************************************************)
(* The encrypted identity envelope of one binding                          *)
(* (src/src/provider_envelope.rs): `identity init` writes it once, under   *)
(* the writer authority of the instance; the daemon opens it at every      *)
(* start.  The process may be killed and the host may lose power between   *)
(* any two steps; the operator may remove the file or put a good copy of   *)
(* it in place by hand, at any moment.                                     *)
(*                                                                         *)
(* The envelope's bytes are none, a part or all of a sealed identity that  *)
(* matches the binding: sealing, and the comparison of reference, context, *)
(* credential and identity, have no other outcome here.                    *)
(***************************************************************************)
EXTENDS Naturals

CONSTANTS MaxFiles       \* how many files are ever created at the path

VARIABLES
    file,        \* the entry at the envelope path; inode 0 is no entry
    init,        \* the running `identity init`: its stage and the inode it holds
    kept,        \* the inode of the envelope known to be good, for the property; 0 is none
    files        \* inodes used so far

envelopeVars == <<file, init, kept, files>>

NoFile == [inode |-> 0, data |-> "none", data_synced |-> TRUE, entry_synced |-> TRUE]
NotRunning == [stage |-> "idle", inode |-> 0]

EnvelopeInit ==
    /\ file = NoFile
    /\ init = NotRunning
    /\ kept = 0
    /\ files = 0

\* openat with CREATE and EXCL: an existing entry, whatever it holds, is refused
\* and the command ends.  A new file whose status is not acceptable ends it too,
\* and is left behind.
CreateNew ==
    /\ init.stage = "idle"
    /\ file = NoFile
    /\ files < MaxFiles
    /\ files' = files + 1
    /\ file' = [inode |-> files', data |-> "none", data_synced |-> FALSE, entry_synced |-> FALSE]
    /\ init' \in {[stage |-> "created", inode |-> files'], NotRunning}
    /\ UNCHANGED kept

\* The bytes go to the inode that is held, linked or not.
OnOwn(change) == IF file.inode = init.inode THEN change ELSE file

\* write_all is more than one write.
WriteAll ==
    /\ init.stage \in {"created", "writing"}
    /\ LET stage == IF init.stage = "created" THEN "writing" ELSE "written"
       IN  /\ init' = [init EXCEPT !.stage = stage]
           /\ file' = OnOwn([file EXCEPT !.data = IF stage = "writing" THEN "part" ELSE "full"])
    /\ UNCHANGED <<kept, files>>

SyncFile ==
    /\ init.stage = "written"
    /\ init' = [init EXCEPT !.stage = "synced"]
    /\ file' = OnOwn([file EXCEPT !.data_synced = TRUE])
    /\ UNCHANGED <<kept, files>>

\* validate_current_binding: the path still names the file that is held, whole.
validate_current_binding == file.inode = init.inode /\ file.data = "full"

\* Faulty variant: the directory is not synced before success is reported.
SyncParentLater ==
    /\ init.stage = "synced"
    /\ validate_current_binding
    /\ init' = [init EXCEPT !.stage = "linked"]
    /\ UNCHANGED <<file, kept, files>>

SyncParent ==
    /\ init.stage = "synced"
    /\ validate_current_binding
    /\ init' = [init EXCEPT !.stage = "linked"]
    /\ file' = [file EXCEPT !.entry_synced = TRUE]
    /\ UNCHANGED <<kept, files>>

Provisioned ==
    /\ init.stage = "linked"
    /\ validate_current_binding
    /\ kept' = init.inode
    /\ init' = NotRunning
    /\ UNCHANGED <<file, files>>

\* cleanup_owned: the entry is removed, and its removal synced, only when it is
\* the very file this command created.
cleanup_owned == OnOwn(NoFile)

\* A call of the file system fails, or validation does.
ProvisionFails ==
    /\ init.stage # "idle"
    /\ file' = cleanup_owned
    /\ init' = NotRunning
    /\ UNCHANGED <<kept, files>>

Killed ==
    /\ init.stage # "idle"
    /\ init' = NotRunning
    /\ UNCHANGED <<file, kept, files>>

\* What was not synced may be lost: bytes of the file, or its entry.
PowerLoss ==
    /\ init' = NotRunning
    /\ \/ file' = file
       \/ /\ ~file.entry_synced
          /\ file' = NoFile
       \/ /\ ~file.data_synced
          /\ file' = [file EXCEPT !.data = "none"]
    /\ UNCHANGED <<kept, files>>

OperatorRemoves ==
    /\ file # NoFile
    /\ file' = NoFile
    /\ kept' = 0
    /\ UNCHANGED <<init, files>>

\* A copy from elsewhere, put in place whole.
OperatorRestores ==
    /\ file = NoFile
    /\ files < MaxFiles
    /\ files' = files + 1
    /\ file' = [inode |-> files', data |-> "full", data_synced |-> TRUE, entry_synced |-> TRUE]
    /\ kept' = files'
    /\ UNCHANGED init

EnvelopeNext ==
    \/ CreateNew \/ WriteAll \/ SyncFile \/ SyncParent \/ Provisioned
    \/ ProvisionFails \/ Killed \/ PowerLoss \/ OperatorRemoves \/ OperatorRestores

\* open_myc_encrypted_identity: a missing, empty or torn file does not open.
Opens == file.inode # 0 /\ file.data = "full"

(***************************************************************************)
(* Property.                                                               *)
(***************************************************************************)
\* An envelope that `identity init` reported as provisioned, or that the operator
\* put in place, stays there and opens until the operator removes it: no power
\* loss takes it back, and no failing command removes a file it did not create.
ProvisionedStands == kept # 0 => file.inode = kept /\ Opens
================================================================================
