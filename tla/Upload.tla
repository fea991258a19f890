-------------------------------- MODULE Upload --------------------------------
(****************************************************************************)
(* What the function returned by BlobStreamer::PutBlobStream promises to    *)
(* the code that feeds it (blob_streamer_interface.h:28-36): data that was  *)
(* taken without an error is uploaded, in order, once the caller has        *)
(* completed the upload and was told it succeeded; an error ends the upload *)
(* and leaves no blob behind.                                               *)
(****************************************************************************)
EXTENDS Sequences

CONSTANTS
  Data,     \* the pieces of data a caller may upload
  NoBlob    \* nothing has been stored

VARIABLES
  accepted,   \* the data the caller was told was taken, in order
  blob,       \* what the upload has stored
  verdict     \* "none" before the upload, "open", then "Success" or "Failure"

uvars == <<accepted, blob, verdict>>

UInit == accepted = <<>> /\ blob = NoBlob /\ verdict = "none"

\* PutBlobStream: the upload starts with its initial data.
Open(d) ==
  /\ verdict = "none"
  /\ verdict' = "open"
  /\ accepted' = <<d>>
  /\ UNCHANGED blob

Push(d) ==
  /\ verdict = "open"
  /\ accepted' = Append(accepted, d)
  /\ UNCHANGED <<blob, verdict>>

Commit ==
  /\ verdict = "open"
  /\ verdict' = "Success"
  /\ blob' = accepted
  /\ UNCHANGED accepted

Abort ==
  /\ verdict = "open"
  /\ verdict' = "Failure"
  /\ UNCHANGED <<accepted, blob>>

UNext == (\E d \in Data : Open(d) \/ Push(d)) \/ Commit \/ Abort

USpec == UInit /\ [][UNext]_uvars
================================================================================
