-------------------------- MODULE LetsEncrypt_proofs --------------------------
(***************************************************************************)
(* The properties of LetsEncrypt for any certificates in any order, and    *)
(* any number of keys.                                                     *)
(***************************************************************************)
EXTENDS LetsEncrypt, TLAPS

LEMMA KeysType == Keys \subseteq Nat /\ NoKey \notin Keys /\ 1 \in Keys
  BY LetsEncryptAssumption DEF NoKey, Keys

LEMMA FirstIsOne ==
  ASSUME NEW c, NEW d, c \in todo, d \in todo, todo \subseteq Certs, First(c), First(d)
  PROVE  c = d
<1>1. Rank[c] <= Rank[d] /\ Rank[d] <= Rank[c]
  BY DEF First
<1>2. Rank[c] \in Nat /\ Rank[d] \in Nat
  BY LetsEncryptAssumption
<1>3. Rank[c] = Rank[d]
  BY <1>1, <1>2
<1> QED
  BY <1>3, LetsEncryptAssumption

LEMMA InitInv == Init => IInv
<1> SUFFICES ASSUME Init PROVE IInv
  OBVIOUS
<1>1. TypeOK
  <2>1. \A c \in Certs : crt[c] \in {NoCrt, [key |-> 1, state |-> "valid"]}
    BY DEF Init
  <2>2. {NoCrt, [key |-> 1, state |-> "valid"]}
          \subseteq [key : Keys \cup {NoKey}, state : {"none", "valid", "expiring"}]
    BY KeysType DEF NoCrt
  <2>3. crt \in [Certs -> [key : Keys \cup {NoKey}, state : {"none", "valid", "expiring"}]]
    BY <2>2 DEF Init
  <2>4. \A c \in Certs : crt[c].key \in Keys \cup {NoKey}
    BY <2>3
  <2> QED
    BY <2>3, <2>4 DEF Init, TypeOK, Ordered
<1>2. FinalInv /\ KeyInv /\ CsrInv /\ PairInv /\ ReorderInv
  BY KeysType DEF Init, FinalInv, KeyInv, CsrInv, PairInv, ReorderInv, Ordered, NoCrt, NoKey
<1> QED
  BY <1>1, <1>2 DEF IInv

LEMMA TypeStep == IInv /\ [Next]_vars => TypeOK'
<1> SUFFICES ASSUME IInv, [Next]_vars PROVE TypeOK'
  OBVIOUS
<1> USE LetsEncryptAssumption, KeysType DEF IInv, TypeOK, Ordered, NoKey
<1>1. ASSUME NEW c \in Certs, GenKey(c) PROVE TypeOK'
  BY <1>1 DEF GenKey, GoTo, At, First, records
<1>2. ASSUME NEW c \in Certs, GenCsr(c) PROVE TypeOK'
  BY <1>2 DEF GenCsr, GoTo, At, First, records
<1>3. ASSUME NEW c \in Certs, ExistingOrder(c) PROVE TypeOK'
  BY <1>3 DEF ExistingOrder, Done, tls, records
<1>4. ASSUME NEW c \in Certs, NewOrder(c) PROVE TypeOK'
  BY <1>4 DEF NewOrder, GoTo, Done, At, First, records, CsrInv
<1>5. ASSUME NEW c \in Certs, AnswerChallenges(c) PROVE TypeOK'
  BY <1>5 DEF AnswerChallenges, GoTo, At, First, tls, records
<1>6. ASSUME NEW c \in Certs, RemoveCsr(c) PROVE TypeOK'
  BY <1>6 DEF RemoveCsr, GoTo, At, First, records
<1>7. ASSUME NEW c \in Certs, PollAndFinalize(c) PROVE TypeOK'
  BY <1>7 DEF PollAndFinalize, GoTo, Done, At, First, tls, records
<1>8. ASSUME NEW c \in Certs, WriteCrt(c) PROVE TypeOK'
  BY <1>8 DEF WriteCrt, GoTo, At, First, records
<1>9. ASSUME NEW c \in Certs, RemoveOrder(c) PROVE TypeOK'
  BY <1>9 DEF RemoveOrder, Forget, GoTo, At, First, tls
<1>10. CASE WriteNamed
  BY <1>10 DEF WriteNamed, Done, tls
<1>11. CASE RemoveNamed
  BY <1>11 DEF RemoveNamed, Done, tls
<1>12. CASE ReorderExpiring
  BY <1>12 DEF ReorderExpiring, Begin, tls, records
<1>13. CASE GenNamedConf \/ FinalizeOrders
  BY <1>13 DEF GenNamedConf, FinalizeOrders, Begin, tls, records
<1>14. ASSUME NEW c \in Certs, OrderWithNewKey(c) \/ OrderWithKey(c) \/ Order(c) PROVE TypeOK'
  BY <1>14 DEF OrderWithNewKey, OrderWithKey, Order, Begin, tls, records
<1>15. ASSUME NEW c \in Certs, Expire(c) PROVE TypeOK'
  BY <1>15 DEF Expire, records, command
<1>16. ASSUME NEW c \in Certs, PurgeOrder(c) PROVE TypeOK'
  BY <1>16 DEF PurgeOrder, Forget, command
<1>17. ASSUME NEW c \in Certs, Validate(c) PROVE TypeOK'
  BY <1>17 DEF Validate, tls, records, command
<1>18. CASE Kill
  BY <1>18 DEF Kill, Done, tls, records
<1>19. CASE PublishDns
  BY <1>19 DEF PublishDns, tls, command
<1>20. CASE PurgeNamed
  BY <1>20 DEF PurgeNamed, tls, command
<1>21. CASE UNCHANGED vars
  BY <1>21 DEF vars
<1> QED
  BY <1>1, <1>2, <1>3, <1>4, <1>5, <1>6, <1>7, <1>8, <1>9, <1>10, <1>11, <1>12, <1>13, <1>14,
     <1>15, <1>16, <1>17, <1>18, <1>19, <1>20, <1>21 DEF Next, CommandStep

LEMMA StepInv == IInv /\ [Next]_vars => IInv'
<1> SUFFICES ASSUME IInv, [Next]_vars
             PROVE  (FinalInv /\ KeyInv /\ CsrInv /\ PairInv /\ ReorderInv)'
  BY TypeStep DEF IInv
<1> DEFINE Rest == FinalInv /\ KeyInv /\ CsrInv /\ PairInv /\ ReorderInv
<1> USE LetsEncryptAssumption, KeysType DEF IInv, TypeOK, Ordered, NoKey, FinalInv, KeyInv, CsrInv,
        PairInv, ReorderInv, Expiring, First
<1>1. ASSUME NEW c \in Certs, GenKey(c) PROVE Rest'
  <2>1. PICK k \in Keys : key' = [key EXCEPT ![c] = k]
    BY <1>1 DEF GenKey
  <2>2. /\ at = "key" /\ at' = "csr" /\ todo' = todo /\ c \in todo /\ batch = todo
        /\ unordered' = [unordered EXCEPT ![c] = TRUE] /\ cmd = "order_key"
        /\ UNCHANGED <<csr, crt, order, cmd, batch>>
    BY <1>1 DEF GenKey, GoTo, At, records
  <2>3. key'[c] # NoKey /\ \A d \in Certs \ {c} : key'[d] = key[d]
    BY <2>1
  <2>4. \A d \in batch : d = c
    BY <2>2
  <2>5. KeyInv' /\ CsrInv'
    BY <2>2, <2>3, <2>4
  <2>6. FinalInv' /\ ReorderInv'
    BY <2>2
  <2>7. PairInv'
    BY <2>2, <2>3
  <2> QED
    BY <2>5, <2>6, <2>7
<1>2. ASSUME NEW c \in Certs, GenCsr(c) PROVE Rest'
  BY <1>2 DEF GenCsr, GoTo, At, First, records
<1>3. ASSUME NEW c \in Certs, ExistingOrder(c) PROVE Rest'
  BY <1>3 DEF ExistingOrder, Done, tls, records
<1>4. ASSUME NEW c \in Certs, NewOrder(c) PROVE Rest'
  BY <1>4 DEF NewOrder, GoTo, Done, At, First, records
<1>5. ASSUME NEW c \in Certs, AnswerChallenges(c) PROVE Rest'
  BY <1>5 DEF AnswerChallenges, GoTo, At, First, tls, records
<1>6. ASSUME NEW c \in Certs, RemoveCsr(c) PROVE Rest'
  BY <1>6 DEF RemoveCsr, GoTo, At, First, records
<1>7. ASSUME NEW c \in Certs, PollAndFinalize(c) PROVE Rest'
  BY <1>7 DEF PollAndFinalize, GoTo, Done, At, First, tls, records
<1>8. ASSUME NEW c \in Certs, WriteCrt(c) PROVE Rest'
  <2>1. /\ at = "write" /\ at' = "unlink" /\ cmd = "finalize" /\ c \in todo /\ First(c)
        /\ crt' = [crt EXCEPT ![c] = [key |-> order[c], state |-> "valid"]]
        /\ UNCHANGED <<key, csr, unordered, order, cmd, batch, todo>>
    BY <1>8 DEF WriteCrt, GoTo, At, records
  <2>2. crt'[c] = [key |-> order[c], state |-> "valid"] /\ \A d \in Certs \ {c} : crt'[d] = crt[d]
    BY <2>1
  <2>3. ASSUME NEW d \in todo, First(d) PROVE d = c
    BY <2>1, <2>3, FirstIsOne
  <2>4. FinalInv'
    BY <2>1, <2>2, <2>3
  <2>5. KeyInv'
    BY <2>1, <2>2
  <2>6. CsrInv' /\ PairInv' /\ ReorderInv'
    BY <2>1, <2>2
  <2> QED
    BY <2>4, <2>5, <2>6
<1>9. ASSUME NEW c \in Certs, RemoveOrder(c) PROVE Rest'
  <2>1. /\ at = "unlink" /\ cmd = "finalize" /\ cmd' = "finalize"
        /\ at' \in {"close", "answer"} /\ todo' = todo \ {c}
        /\ crt[c] = [key |-> order[c], state |-> "valid"] /\ order[c] # NoKey
        /\ order' = [order EXCEPT ![c] = NoKey]
        /\ UNCHANGED <<key, csr, crt, unordered, batch>>
    BY <1>9 DEF RemoveOrder, Forget, GoTo, At, tls
  <2>2. Ordered' = Ordered \ {c}
    BY <2>1
  <2>3. FinalInv'
    BY <1>9, <2>1, <2>2 DEF RemoveOrder, GoTo
  <2>4. KeyInv' /\ CsrInv' /\ ReorderInv'
    BY <2>1
  <2>5. PairInv'
    BY <2>1
  <2> QED
    BY <2>3, <2>4, <2>5
<1>10. CASE WriteNamed
  BY <1>10 DEF WriteNamed, Done, tls
<1>11. CASE RemoveNamed
  BY <1>11 DEF RemoveNamed, Done, tls
<1>12. CASE ReorderExpiring
  BY <1>12 DEF ReorderExpiring, Begin, tls, records
<1>13. CASE GenNamedConf \/ FinalizeOrders
  BY <1>13 DEF GenNamedConf, FinalizeOrders, Begin, tls, records
<1>14. ASSUME NEW c \in Certs, OrderWithNewKey(c) \/ OrderWithKey(c) \/ Order(c) PROVE Rest'
  BY <1>14 DEF OrderWithNewKey, OrderWithKey, Order, Begin, tls, records
<1>15. ASSUME NEW c \in Certs, Expire(c) PROVE Rest'
  BY <1>15 DEF Expire, records, command
<1>16. ASSUME NEW c \in Certs, PurgeOrder(c) PROVE Rest'
  BY <1>16 DEF PurgeOrder, Forget, command
<1>17. ASSUME NEW c \in Certs, Validate(c) PROVE Rest'
  BY <1>17 DEF Validate, tls, records, command
<1>18. CASE Kill
  BY <1>18 DEF Kill, Done, tls, records
<1>19. CASE PublishDns
  BY <1>19 DEF PublishDns, tls, command
<1>20. CASE PurgeNamed
  BY <1>20 DEF PurgeNamed, tls, command
<1>21. CASE UNCHANGED vars
  BY <1>21 DEF vars
<1> QED
  BY <1>1, <1>2, <1>3, <1>4, <1>5, <1>6, <1>7, <1>8, <1>9, <1>10, <1>11, <1>12, <1>13, <1>14,
     <1>15, <1>16, <1>17, <1>18, <1>19, <1>20, <1>21 DEF Next, CommandStep

LEMMA Invariance == Spec => []IInv
<1> QED
  BY InitInv, StepInv, PTL DEF Spec

-----------------------------------------------------------------------------
\* Commands and files have their types, for any certificates and keys.
THEOREM TypeCorrect == Spec => []TypeOK
<1>1. IInv => TypeOK
  BY DEF IInv
<1> QED
  BY <1>1, Invariance, PTL

\* What is published fits: with no order open and no new key without one, a
\* certificate is for the key beside it (gen_csr, order, finalize_orders).
THEOREM PairCorrect == Spec => []PairFits
<1>1. IInv => PairFits
  BY DEF IInv, PairInv, PairFits
<1> QED
  BY <1>1, Invariance, PTL

\* Commands remove the file of an order only beside its certificate.
THEOREM OrderCorrect == Spec => OrderLeavesCrt
<1> DEFINE Step == \A c \in Ordered : cmd # "idle" /\ order'[c] = NoKey
                     => crt[c] = [key |-> order[c], state |-> "valid"]
<1>1. IInv /\ [Next]_vars => [Step]_vars
  <2> SUFFICES ASSUME IInv, Next, NEW c \in Ordered, cmd # "idle", order'[c] = NoKey
               PROVE  crt[c] = [key |-> order[c], state |-> "valid"]
    OBVIOUS
  <2> USE DEF IInv, TypeOK, FinalInv, Ordered
  <2>1. ASSUME NEW d \in Certs, RemoveOrder(d) PROVE c = d
    BY <2>1 DEF RemoveOrder, Forget
  <2>2. ASSUME NEW d \in Certs, NewOrder(d) PROVE FALSE
    BY <2>2 DEF NewOrder, GoTo, At, First, CsrInv
  <2>3. CASE \E d \in Certs : RemoveOrder(d)
    BY <2>1, <2>3 DEF RemoveOrder, At
  <2>4. CASE ~ \E d \in Certs : RemoveOrder(d) \/ NewOrder(d)
    <3>1. order' = order
      BY <2>4 DEF Next, CommandStep, GenKey, GenCsr, ExistingOrder, AnswerChallenges, RemoveCsr,
           PollAndFinalize, WriteCrt, WriteNamed, RemoveNamed, ReorderExpiring, GenNamedConf,
           FinalizeOrders, OrderWithNewKey, OrderWithKey, Order, Expire, PurgeOrder, Validate,
           Kill, PublishDns, PurgeNamed, Begin, tls, records
    <3> QED
      BY <3>1
  <2> QED
    BY <2>2, <2>3, <2>4
<1> QED
  BY <1>1, Invariance, PTL DEF Spec, OrderLeavesCrt

\* letsencrypt-named.json, whenever a command writes it, covers what is ordered.
THEOREM NamedCovers == Spec => NamedCoversOrders
<1> DEFINE Step == ~named /\ named' =>
                     /\ Ordered \subseteq covered'
                     /\ cmd = "reorder" => \A c \in Certs : Expiring(c) => c \in covered'
<1>1. IInv /\ [Next]_vars => [Step]_vars
  <2> SUFFICES ASSUME IInv, Next, ~named, named' PROVE Step
    OBVIOUS
  <2>1. WriteNamed
    BY DEF Next, CommandStep, GenKey, GenCsr, ExistingOrder, NewOrder, AnswerChallenges, RemoveCsr,
         PollAndFinalize, WriteCrt, RemoveOrder, RemoveNamed, ReorderExpiring, GenNamedConf,
         FinalizeOrders, OrderWithNewKey, OrderWithKey, Order, Expire, PurgeOrder, Validate,
         Kill, PublishDns, PurgeNamed, Begin, Forget, records
  <2> QED
    BY <2>1 DEF WriteNamed, IInv, ReorderInv
<1> QED
  BY <1>1, Invariance, PTL DEF Spec, NamedCoversOrders

\* finalize_orders removes it when no order of it is left.
THEOREM NamedLast == Spec => NamedGoesLast
<1> DEFINE Step == cmd # "idle" /\ named /\ ~named' => covered = {}
<1>1. IInv /\ [Next]_vars => [Step]_vars
  <2> SUFFICES ASSUME IInv, Next, cmd # "idle", named, ~named' PROVE covered = {}
    OBVIOUS
  <2>1. RemoveNamed
    BY DEF Next, CommandStep, GenKey, GenCsr, ExistingOrder, NewOrder, AnswerChallenges, RemoveCsr,
         PollAndFinalize, WriteCrt, RemoveOrder, WriteNamed, ReorderExpiring, GenNamedConf,
         FinalizeOrders, OrderWithNewKey, OrderWithKey, Order, Expire, PurgeOrder, Validate,
         Kill, PublishDns, PurgeNamed, Begin, Forget, records
  <2> QED
    BY <2>1 DEF RemoveNamed, IInv, TypeOK, FinalInv
<1> QED
  BY <1>1, Invariance, PTL DEF Spec, NamedGoesLast
=============================================================================
