----------------------------- MODULE BlockDevice -----------------------------
(***************************************************************************)
(* What a disk image promises its users (the comments of device_image_t in *)
(* hdimage.h): sectors that read as they were last written, writes that    *)
(* take effect at one moment before they return success, and a crash that  *)
(* leaves the sector being written old or new and every other alone.       *)
(***************************************************************************)
CONSTANTS Sectors, Data, None

VARIABLES
  content,   \* what each sector holds
  pending,   \* the write in progress, or None
  reply      \* the answer to the last read, or None

abstractVars == <<content, pending, reply>>

Begin(s, v) ==
  /\ pending = None
  /\ pending' = [sector |-> s, data |-> v, done |-> FALSE, ok |-> TRUE]
  /\ UNCHANGED <<content, reply>>

Take ==
  /\ pending # None /\ ~pending.done
  /\ pending' = [pending EXCEPT !.done = TRUE]
  /\ content' = [content EXCEPT ![pending.sector] = pending.data]
  /\ UNCHANGED reply

\* The host refuses the data: the write will report it, and the sector may
\* hold anything.
Spoil ==
  /\ pending # None /\ ~pending.done
  /\ pending' = [pending EXCEPT !.done = TRUE, !.ok = FALSE]
  /\ \E v \in Data : content' = [content EXCEPT ![pending.sector] = v]
  /\ UNCHANGED reply

Return ==
  /\ pending # None /\ pending.done
  /\ pending' = None
  /\ UNCHANGED <<content, reply>>

Read(s) ==
  /\ pending = None
  /\ reply' = [sector |-> s, data |-> content[s]]
  /\ UNCHANGED <<content, pending>>

\* A new request.
Seek ==
  /\ pending = None /\ reply' = None
  /\ UNCHANGED <<content, pending>>

\* The program stops, or the image is closed.
Stop ==
  /\ pending' = None /\ reply' = None
  /\ UNCHANGED content

AbstractInit == content \in [Sectors -> Data] /\ pending = None /\ reply = None

AbstractNext ==
  \/ \E s \in Sectors : Read(s) \/ \E v \in Data : Begin(s, v)
  \/ Take \/ Spoil \/ Return \/ Seek \/ Stop

Device == AbstractInit /\ [][AbstractNext]_abstractVars
=============================================================================
