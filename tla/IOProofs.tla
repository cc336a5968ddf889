------------------------------ MODULE IOProofs ------------------------------
(***************************************************************************)
(* Proofs about IO for every set of tags, topics and endpoints.            *)
(*                                                                         *)
(* The two promises of the module, PublicationNotLost and EndpointNotLost, *)
(* are not invariants of every configuration: with publications and        *)
(* endpoints together each of the two consumers clears what the other one  *)
(* has not seen.  They are claimed of the devices in which there is a      *)
(* single consumer.  Both need Faithful: the dictionary holds no      *)
(* value but the latest one.                                               *)
(***************************************************************************)
EXTENDS IO, TLAPS

Faithful == \A t \in Tag : updated[t] \in {None, latest[t]}

IInv == TypeOK /\ Faithful

\* A time step with an unread input would push a Status without a value.
Read == pc = "status" => recv \in [Sub -> Value]

TInv == IInv /\ Read

\* The conversion of a value is a value.
LEMMA ConvertType ==
    ASSUME NEW k, NEW v \in Value
    PROVE  Convert(k, v) \in Value
  BY IOAssumption DEF Convert

\* The invariant holds initially.
LEMMA InitTInv == Init => TInv
  BY IOAssumption DEF Init, TInv, IInv, TypeOK, Faithful, Read, Empty, Maybe, Step

\* Every step preserves it.
LEMMA NextTInv == TInv /\ [Next]_vars => TInv'
<1> SUFFICES ASSUME TInv, [Next]_vars PROVE TInv'
  OBVIOUS
<1> USE DEF TInv, IInv, TypeOK, Faithful, Read, Maybe, Step, helics
<1>1. CASE Update
  <2>1. PICK msg \in [Tag -> Maybe] :
            /\ updated' = Merge(updated, msg)
            /\ latest' = Merge(latest, msg)
            /\ UNCHANGED <<kinds, pc, send, outbox, recv, helics, status>>
    BY <1>1 DEF Update
  <2>2. updated' \in [Tag -> Maybe] /\ latest' \in [Tag -> Maybe]
    BY <2>1 DEF Merge
  <2>3. Faithful'
    BY <2>1 DEF Merge
  <2> QED
    BY <2>1, <2>2, <2>3
<1>2. CASE RequestTime
  BY <1>2 DEF RequestTime
<1>3. CASE ActionPublications
  <2>1. send' \in [Pub -> Maybe]
    BY <1>3, ConvertType, IOAssumption DEF ActionPublications
  <2> QED
    BY <1>3, <2>1 DEF ActionPublications, Empty
<1>4. CASE Publish
  BY <1>4 DEF Publish, Merge
<1>5. CASE ActionEndpointsSend
  <2>1. \A r \in Route : r[1] \in Tag
    BY IOAssumption
  <2>2. outbox' \in [Route -> Maybe]
    BY <1>5, <2>1 DEF ActionEndpointsSend, Merge
  <2> QED
    BY <1>5, <2>2 DEF ActionEndpointsSend, Empty
<1>6. CASE EndpointsSend
  BY <1>6 DEF EndpointsSend, Merge
<1>7. CASE Subscribe
  <2>1. recv' \in [Sub -> Value]
    BY <1>7, ConvertType DEF Subscribe
  <2> QED
    BY <1>7, <2>1 DEF Subscribe
<1>8. CASE ActionSubscriptions
  <2>1. status' \subseteq Tag \X Value
    BY <1>8, IOAssumption DEF ActionSubscriptions
  <2> QED
    BY <1>8, <2>1 DEF ActionSubscriptions
<1>9. CASE UNCHANGED vars
  BY <1>9 DEF vars
<1> QED
  BY <1>1, <1>2, <1>3, <1>4, <1>5, <1>6, <1>7, <1>8, <1>9 DEF Next, Run

\* Every variable of the I/O module keeps its type; in particular no Status is pushed
\* with an input that was never read (float(None) in action_subscriptions would raise
\* an exception and end the HELICS thread).
THEOREM TypeCorrect == Spec => []TypeOK
<1>1. TInv => TypeOK
  BY DEF TInv, IInv
<1> QED
  BY <1>1, InitTInv, NextTInv, PTL DEF Spec

\* What a Status is put together from has been read in this time step.
Current == pc = "status" => recv = [k \in Sub |-> Convert(k, field[k])]

\* A thread that asks for the next time has no Status of an earlier step to its name: a
\* Status never mixes the inputs of two time steps (helics_helper/__init__.py:272-341).
THEOREM InvCorrect == Spec => []IOInv
<1> DEFINE SInv == TInv /\ Current /\ StatusOfOneStep /\ (Sub = {} => status = {})
<1>1. Init => SInv
  BY InitTInv DEF Init, Current, StatusOfOneStep
<1>2. SInv /\ [Next]_vars => SInv'
  <2> SUFFICES ASSUME SInv, [Next]_vars
               PROVE  Current' /\ StatusOfOneStep' /\ (Sub = {} => status = {})'
    BY NextTInv
  <2> USE DEF Current, StatusOfOneStep, helics
  <2>1. CASE RequestTime
    BY <2>1 DEF RequestTime
  <2>2. CASE Subscribe
    BY <2>2 DEF Subscribe
  <2>3. CASE ActionSubscriptions
    <3>1. status' = {<<TagOf[k], Convert(k, field[k])>> : k \in Sub}
      BY <2>3 DEF ActionSubscriptions
    <3> QED
      BY <2>3, <3>1 DEF ActionSubscriptions
  <2>4. CASE Update \/ ActionPublications \/ Publish \/ ActionEndpointsSend \/ EndpointsSend
    BY <2>4 DEF Update, ActionPublications, Publish, ActionEndpointsSend, EndpointsSend
  <2>5. CASE UNCHANGED vars
    BY <2>5 DEF vars
  <2> QED
    BY <2>1, <2>2, <2>3, <2>4, <2>5 DEF Next, Run
<1>3. SInv => IOInv
  BY DEF IOInv, TInv, IInv
<1> QED
  BY <1>1, <1>2, <1>3, PTL DEF Spec

-----------------------------------------------------------------------------
\* Without endpoints the HELICS thread never loses a value that it should publish,
\* however Update messages and time steps interleave.
THEOREM PublicationCorrect == Spec => []PublicationNotLost
<1> DEFINE Single == kinds = {"publications"} => pc # "endpoints"
           PInv == TInv /\ PublicationNotLost /\ Single
<1>1. Init => PInv
  BY InitTInv DEF Init, PublicationNotLost, Empty
<1>2. PInv /\ [Next]_vars => PInv'
  <2> SUFFICES ASSUME PInv, [Next]_vars PROVE PublicationNotLost' /\ Single'
    BY NextTInv
  <2> USE IOAssumption DEF PublicationNotLost, TInv, IInv, TypeOK, Faithful, Maybe, helics
  <2>1. CASE Update
    <3>1. PICK msg \in [Tag -> Maybe] :
              /\ updated' = Merge(updated, msg)
              /\ latest' = Merge(latest, msg)
              /\ UNCHANGED <<kinds, pc, send>>
      BY <2>1 DEF Update
    <3> QED
      BY <3>1 DEF Merge
  <2>2. CASE ActionPublications
    BY <2>2 DEF ActionPublications
  <2>3. CASE RequestTime \/ Publish \/ EndpointsSend \/ Subscribe \/ ActionSubscriptions
    BY <2>3 DEF RequestTime, Publish, EndpointsSend, Subscribe, ActionSubscriptions
  <2>4. CASE ActionEndpointsSend
    BY <2>4 DEF ActionEndpointsSend
  <2>5. CASE UNCHANGED vars
    BY <2>5 DEF vars
  <2> QED
    BY <2>1, <2>2, <2>3, <2>4, <2>5 DEF Next, Run
<1>3. PInv => PublicationNotLost
  OBVIOUS
<1> QED
  BY <1>1, <1>2, <1>3, PTL DEF Spec

\* A message that waits to be sent is not older than what the dictionary has taken in
\* since: sending it never replaces a later value by an earlier one.
InOrder ==
    kinds = {"endpoints"} => \A r \in Route : outbox[r] # None =>
        /\ pc = "send"
        /\ latest[r[1]] # None
        /\ latest[r[1]] \in {outbox[r], updated[r[1]]}

\* Without publications no value is lost on its way to any remote endpoint.
THEOREM EndpointCorrect == Spec => []EndpointNotLost
<1> DEFINE Single == kinds = {"endpoints"} => pc # "publications"
           EInv == TInv /\ EndpointNotLost /\ InOrder /\ Single
<1>1. Init => EInv
  BY InitTInv, IOAssumption DEF Init, EndpointNotLost, InOrder, Empty
<1>2. EInv /\ [Next]_vars => EInv'
  <2> SUFFICES ASSUME EInv, [Next]_vars PROVE (EndpointNotLost /\ InOrder)' /\ Single'
    BY NextTInv
  <2>0. \A r \in Route : r[1] \in Tag
    BY IOAssumption
  <2> USE <2>0 DEF EndpointNotLost, InOrder, TInv, IInv, TypeOK, Faithful, Maybe, helics
  <2>1. CASE Update
    <3>1. PICK msg \in [Tag -> Maybe] :
              /\ updated' = Merge(updated, msg)
              /\ latest' = Merge(latest, msg)
              /\ UNCHANGED <<kinds, pc, outbox, mail>>
      BY <2>1 DEF Update
    <3> QED
      BY <3>1 DEF Merge
  <2>2. CASE ActionEndpointsSend
    BY <2>2 DEF ActionEndpointsSend, Merge
  <2>3. CASE EndpointsSend
    BY <2>3 DEF EndpointsSend, Merge
  <2>4. CASE RequestTime \/ Publish \/ Subscribe \/ ActionSubscriptions
    BY <2>4 DEF RequestTime, Publish, Subscribe, ActionSubscriptions
  <2>5. CASE ActionPublications
    BY <2>5 DEF ActionPublications
  <2>6. CASE UNCHANGED vars
    BY <2>6 DEF vars
  <2> QED
    BY <2>1, <2>2, <2>3, <2>4, <2>5, <2>6 DEF Next, Run
<1>3. EInv => EndpointNotLost
  OBVIOUS
<1> QED
  BY <1>1, <1>2, <1>3, PTL DEF Spec
=============================================================================
