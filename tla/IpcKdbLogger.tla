--------------------------- MODULE IpcKdbLogger ---------------------------
(***************************************************************************)
(* external::IpcKdbLogger (cpp/external/ipc_kdb_logger.cpp): rows are      *)
(* batched by Log and shipped by Flush as one asynchronous frame.  Every   *)
(* operation holds mu_ throughout, so each is one step.  The eight column  *)
(* vectors grow and are cleared together: a row is its event.              *)
(*                                                                         *)
(* The KDB+ client (khpu, k, kclose) is external: a connect succeeds or    *)
(* fails, and a send reports an error or not.  SendBatchLocked takes every *)
(* null return of the asynchronous k() as a success, so the tape is what   *)
(* k() took without reporting an error: whether such a frame reached the   *)
(* ticker plant, or was lost with the socket unnoticed, is not followed.   *)
(***************************************************************************)
EXTENDS Sequences

VARIABLES connected,   \* handle_ > 0
          batch,       \* the *_batch_ columns
          tape         \* external: rows of the frames k() reported no error for

vars == <<connected, batch, tape>>

Init ==
    /\ connected = FALSE
    /\ batch = <<>>
    /\ tape = <<>>

(* external: did the connection come up? *)
khpu == {TRUE, FALSE}

Connect ==
    /\ connected' \in (IF connected THEN {TRUE} ELSE khpu)
    /\ UNCHANGED <<batch, tape>>

Disconnect ==
    /\ connected' = FALSE
    /\ UNCHANGED <<batch, tape>>

Log(e) ==
    /\ batch' = Append(batch, e)
    /\ UNCHANGED <<connected, tape>>

FlushResends ==
    /\ batch # <<>> /\ connected
    /\ tape' = tape \o batch
    /\ UNCHANGED <<batch, connected>>
FlushSends ==
    /\ batch # <<>> /\ connected
    /\ tape' = tape \o batch
    /\ batch' = <<>>
    /\ UNCHANGED connected

FlushFails ==
    /\ batch # <<>> /\ connected
    /\ connected' = FALSE
    /\ UNCHANGED <<batch, tape>>

(* Nothing queued, or no socket: the batch waits for Connect() + Flush().  *)
FlushSkips ==
    /\ batch = <<>> \/ ~connected
    /\ UNCHANGED vars

Flush == FlushSends \/ FlushFails \/ FlushSkips
===========================================================================
