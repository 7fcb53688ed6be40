---------------------------- MODULE TelemetryLog -----------------------------
(***************************************************************************)
(* What writer.h promises, without bytes: a log is a list of closed        *)
(* sections and possibly an open one; a record goes to the end of the open *)
(* section; publishing makes readable exactly the sections closed so far;  *)
(* after the first error nothing changes any more.                         *)
(***************************************************************************)
EXTENDS Sequences

CONSTANT NoSection   \* stands for "no section is open"

VARIABLES closed,     \* the finished sections, [type, stream] each
          open,       \* the open section, or NoSection
          published,  \* what a reader of the last emitted container gets
          failed      \* TRUE once an error is latched

logVars == <<closed, open, published, failed>>

LogInit == closed = <<>> /\ open = NoSection /\ published = NoSection /\ ~failed

Open == /\ ~failed /\ open = NoSection
        /\ open' # NoSection /\ open' = [type |-> open'.type, stream |-> <<>>]
        /\ UNCHANGED <<closed, published, failed>>

Add == /\ ~failed /\ open # NoSection /\ open' # NoSection
       /\ open'.stream # <<>>
       /\ open' = [open EXCEPT !.stream = Append(@, open'.stream[Len(open'.stream)])]
       /\ UNCHANGED <<closed, published, failed>>

Close == /\ ~failed /\ open # NoSection /\ open.stream # <<>>
         /\ closed' = Append(closed, open) /\ open' = NoSection
         /\ UNCHANGED <<published, failed>>

Publish == /\ ~failed /\ open = NoSection
           /\ published' = closed
           /\ UNCHANGED <<closed, open, failed>>

Refuse == /\ ~failed /\ failed'
          /\ UNCHANGED <<closed, open, published>>

LogNext == Open \/ Add \/ Close \/ Publish \/ Refuse

LogSpec == LogInit /\ [][LogNext]_logVars
=============================================================================
