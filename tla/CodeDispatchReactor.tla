------------------------ MODULE CodeDispatchReactor ------------------------
(***************************************************************************)
(* What the reactors of the auction and bidding services share: the        *)
(* request is decrypted in the constructor, Execute and its UDF callbacks  *)
(* follow, one at a time, and an answer is encrypted and the call          *)
(* finished.  gRPC binds the call when the handler that called Execute has *)
(* returned: a Finish before that is kept, and a later one replaces it.    *)
(***************************************************************************)
EXTENDS Integers, Sequences

VARIABLES
  cancelled,  \* context_->IsCancelled()
  stage,      \* what runs next: construct, execute, a callback, encryptFailed, none, crashed
  readable,   \* the constructor could decrypt and parse the request
  bound,      \* gRPC has bound the call to the reactor
  backlog,    \* the status of a Finish before that, or "none"
  finish,     \* statuses the bound call was finished with
  deleted     \* OnDone has run

callVars == <<bound, backlog, finish>>
dispatchVars == <<cancelled, stage, readable, callVars, deleted>>

DispatchInit ==
  /\ cancelled = FALSE /\ stage = "construct" /\ readable = TRUE
  /\ bound = FALSE /\ backlog = "none" /\ finish = <<>> /\ deleted = FALSE

Finish(st) ==
  IF bound THEN finish' = Append(finish, st) /\ UNCHANGED <<bound, backlog>>
  ELSE backlog' = st /\ UNCHANGED <<bound, finish>>

FinishWithStatus(st) == Finish(st) /\ stage' = "none"

(* A failed decryption finishes the call, and the handler goes on to Execute *)
(* with an empty request; a payload that is no request does not even that.   *)
DecryptRequest ==
  /\ stage = "construct" /\ stage' = "execute"
  /\ \/ readable' = TRUE /\ UNCHANGED callVars
     \/ readable' = FALSE /\ Finish("INVALID_ARGUMENT")
     \/ readable' = FALSE /\ UNCHANGED callVars
  /\ UNCHANGED <<cancelled, deleted>>

(* EncryptResponse, and the Finish of its caller, which does not look at the *)
(* result: a failed encryption has finished the call already.                *)
EncryptAndFinishOK ==
  \/ FinishWithStatus("OK")
  \/ Finish("INTERNAL") /\ stage' = "encryptFailed"

FinishAfterFailedEncryption ==
  /\ stage = "encryptFailed" /\ FinishWithStatus("OK")
  /\ UNCHANGED <<cancelled, readable, deleted>>

Crash == stage' = "crashed" /\ UNCHANGED callVars

Bind ==
  /\ stage \notin {"construct", "execute", "crashed"} /\ ~bound
  /\ bound' = TRUE /\ finish' = IF backlog = "none" THEN <<>> ELSE <<backlog>>
  /\ UNCHANGED <<cancelled, stage, readable, backlog, deleted>>

OnCancel ==
  /\ ~cancelled /\ finish = <<>> /\ stage # "crashed"
  /\ cancelled' = TRUE
  /\ UNCHANGED <<stage, readable, callVars, deleted>>

OnDone ==
  /\ finish # <<>> /\ ~deleted /\ stage # "crashed"
  /\ deleted' = TRUE
  /\ UNCHANGED <<cancelled, stage, readable, callVars>>

DispatchTypeOK ==
  /\ cancelled \in BOOLEAN /\ readable \in BOOLEAN /\ bound \in BOOLEAN
  /\ deleted \in BOOLEAN /\ Len(finish) <= 2
=============================================================================
