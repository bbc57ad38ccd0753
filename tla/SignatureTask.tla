--------------------------- MODULE SignatureTask ---------------------------
(***************************************************************************)
(* The record of a signature task, a tokenizer or a model configuration    *)
(* (SignatureTaskRecord in apps/go/manager/records/task.go).  A result     *)
(* carries one sample, OK or failed at evaluation, or none when the        *)
(* evaluation itself failed; AnalyzeResult stores it and keeps the         *)
(* signature of the slot the buffer ends on.                               *)
(***************************************************************************)
EXTENDS TaskBuffer

VARIABLES
  lastSignature,  (* The id of the sample LastSignature came from, 0 for "". *)
  errorCode,      (* ErrorCode, as a status.                                 *)
  newest          (* History: the last sample stored.                        *)

signatureVars == <<buffer, samples, now, pc, total, lastSignature, errorCode, newest>>

SignatureInit ==
  /\ BufferInit
  /\ lastSignature = 0
  /\ errorCode = "Ok"
  /\ newest = NoSample

SignatureTick ==
  /\ BufferTick
  /\ UNCHANGED <<lastSignature, errorCode, newest>>

(* Mutant: the signature is read at the start of the window. *)
ProcessSignatureOldest(b, s) ==
  LET first == s[b.start]
  IN  /\ lastSignature' = IF first.status = "Ok" THEN first.id ELSE 0
      /\ errorCode' = first.status

(***************************************************************************)
(* ProcessSignature on the buffer and samples an analysis ends with.            *)
(***************************************************************************)
ProcessSignature(b, s) ==
  LET last == s[b.end]
  IN  /\ lastSignature' = IF last.status = "Ok" THEN last.id ELSE 0
      /\ errorCode' = last.status

AnalyzeResult(status) ==
  /\ pc = "idle"
  /\ status \in Kept
  /\ Store(status)
  /\ newest' = [id |-> total', status |-> status]
  /\ ProcessSignature(buffer', samples')
  /\ UNCHANGED pc

AnalyzeFailedResult ==
  /\ pc = "idle"
  /\ ProcessSignature(buffer, samples)
  /\ UNCHANGED <<buffer, samples, now, pc, total, newest>>

CycleSignatures ==
  /\ BufferCycle
  /\ UNCHANGED <<lastSignature, errorCode, newest>>

SignatureNext ==
  \/ SignatureTick
  \/ \E status \in Statuses : AnalyzeResult(status)
  \/ AnalyzeFailedResult
  \/ CycleSignatures

SignatureSpec == SignatureInit /\ [][SignatureNext]_signatureVars

-----------------------------------------------------------------------------
(* The type invariant. *)
SignatureTypeOK ==
  /\ BufferTypeOK
  /\ lastSignature \in Nat
  /\ errorCode \in Kept
  /\ newest \in Sample

(* Whatever the buffer went through (wrapping, expiry of every sample, a    *)
(* failed evaluation), the record answers for the last sample stored.       *)
SignatureIsNewest ==
  /\ lastSignature = (IF newest.status = "Ok" THEN newest.id ELSE 0)
  /\ errorCode = newest.status

(* Every behaviour of the record is one of the first-in first-out window.   *)
SignatureImplementsWindow == Window!Spec

=============================================================================
