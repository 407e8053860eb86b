---------------------------- MODULE OrderQueue -----------------------------
(***************************************************************************)
(* What the order stream promises, whatever its workers do: an order that  *)
(* was accepted is owed to the CRM until it is delivered, dead-lettered,   *)
(* given up or answered with a redirect, which a worker takes for a        *)
(* delivery.  It may be delivered more than once; in no other way is it    *)
(* ever forgotten.                                                         *)
(* OrderStream.tla refines this module.                                    *)
(***************************************************************************)
EXTENDS FiniteSets

CONSTANT Order

VARIABLES
  owed,       \* some worker still has to deliver these
  delivered,  \* the CRM has them
  parked,     \* in the dead-letter stream, for an operator
  gone,       \* given up: pushed off a full stream, dropped or mangled by an operator
  redirected  \* taken for delivered: the CRM answered with a redirect

queueVars == <<owed, delivered, parked, gone, redirected>>

Init == owed = {} /\ delivered = {} /\ parked = {} /\ gone = {} /\ redirected = {}

Known(o) == o \in owed \cup delivered \cup parked \cup gone \cup redirected

\* o is put on the stream, for the first time or again; a full stream pushes
\* others off.
Accept(o) ==
  /\ owed' \subseteq owed \cup {o}
  /\ (owed \cup {o}) \ gone' \subseteq owed'
  /\ gone \subseteq gone'
  /\ UNCHANGED <<delivered, parked, redirected>>

Deliver(o) ==
  /\ Known(o)
  /\ delivered' = delivered \cup {o}
  /\ UNCHANGED <<owed, parked, gone, redirected>>

Redirect(o) ==
  /\ Known(o)
  /\ redirected' = redirected \cup {o}
  /\ UNCHANGED <<owed, delivered, parked, gone>>

DeadLetter(o) ==
  /\ Known(o)
  /\ parked' \subseteq parked \cup {o}
  /\ (parked \cup {o}) \ gone' \subseteq parked'
  /\ gone \subseteq gone'
  /\ UNCHANGED <<owed, delivered, redirected>>

\* Orders stop being owed only when they are somewhere else.
Settle ==
  /\ owed' \subseteq owed
  /\ owed \ owed' \subseteq delivered \cup parked \cup gone \cup redirected
  /\ UNCHANGED <<delivered, parked, gone, redirected>>

\* An operator takes o out of the dead letters, put back or given up.
Unpark(o) ==
  /\ parked' \in {parked, parked \ {o}}
  /\ gone' \in {gone, gone \cup {o}}
  /\ o \in owed \cup delivered \cup parked' \cup gone' \cup redirected
  /\ UNCHANGED <<owed, delivered, redirected>>

Next ==
  \/ \E o \in Order : Accept(o) \/ Deliver(o) \/ Redirect(o) \/ DeadLetter(o) \/ Unpark(o)
  \/ Settle

Spec == Init /\ [][Next]_queueVars
=============================================================================
