----------------------------- MODULE LetsEncrypt -----------------------------
(***************************************************************************)
(* Certificates of the build host: pkcli/letsencrypt.py and the parts of   *)
(* pkcli/tls.py it calls.                                                  *)
(*                                                                         *)
(* A certificate is renewed in three commands with time between them: one  *)
(* that places orders and writes letsencrypt-named.json, the publishing of *)
(* that file as DNS records, and finalize_orders.  Every command is a      *)
(* sequence of files written and requests made; it may fail or be killed   *)
(* between any two of them, and everything it has done so far stays.       *)
(* Operators run one command at a time.                                    *)
(***************************************************************************)
EXTENDS Naturals

CONSTANTS
  Certs,     \* names of certificates, <name>.key, <name>.csr, <name>.crt
  Rank,      \* their order in pkio.sorted_glob
  Rekeyed,   \* those that operators order with a new key
  MaxKeys    \* bound on the keys of a certificate that exist at a time

NoKey == 0
Keys == 1..MaxKeys

ASSUME LetsEncryptAssumption ==
  /\ Rekeyed \subseteq Certs /\ MaxKeys \in Nat \ {0}
  /\ Rank \in [Certs -> Nat] /\ \A c, d \in Certs : Rank[c] = Rank[d] => c = d

VARIABLES
  key,      \* the key in <name>.key
  csr,      \* the key <name>.csr was made with, NoKey if there is no such file
  crt,      \* the key <name>.crt is for, and whether it is about to expire
  order,    \* the key of the csr in the file of the order, NoKey if there is none
  named,    \* letsencrypt-named.json is there
  covered,  \* the certificates whose order it has the challenges of
  dns,      \* those whose order the name servers have the challenges of
  status,   \* the order at the certificate authority
  cmd,      \* the command under way, "idle" if there is none
  at,       \* its next step
  batch,    \* the certificates it is about
  todo,     \* those its loop has not come to
  unordered \* history: there is a new key that nothing was ordered for

vars == <<key, csr, crt, unordered, order, named, covered, dns, status, cmd, at, batch,
          todo>>
tls     == <<key, csr, crt, unordered>>
command == <<cmd, at, batch, todo>>
records == <<named, covered, dns>>

NoCrt == [key |-> NoKey, state |-> "none"]

Ordered == {c \in Certs : order[c] # NoKey}
KeysOf(c) == {key[c], csr[c], crt[c].key, order[c]}

\* The challenges of an order that is gone are of no use.
Forget(c) ==
  /\ order' = [order EXCEPT ![c] = NoKey] /\ status' = [status EXCEPT ![c] = "none"]
  /\ covered' = covered \ {c} /\ dns' = dns \ {c} /\ UNCHANGED named

\* Where the command is goes away with it.
Done == cmd' = "idle" /\ at' = "idle" /\ batch' = {} /\ todo' = {}
Begin(name, step, cs) ==
  /\ cmd = "idle" /\ cmd' = name /\ at' = step /\ batch' = cs /\ todo' = cs
  /\ UNCHANGED <<tls, order, records, status>>
GoTo(step, cs) == at' = step /\ todo' = cs /\ UNCHANGED <<cmd, batch>>

-----------------------------------------------------------------------------
(* The commands                                                            *)

\* order_with_new_csr_and_key
OrderWithNewKey(c) == c \in Rekeyed /\ Begin("order_key", "key", {c})

\* order_with_key, order_with_crt
OrderWithKey(c) == key[c] # NoKey /\ Begin("order_key", "csr", {c})

\* order of a csr that is there
Order(c) == csr[c] # NoKey /\ Begin("order", "check", {c})

Expiring(c) == crt[c].state = "expiring"

\* reorder_expiring: not if letsencrypt-named.json exists, nor for nothing
ReorderExpiring ==
  /\ ~named
  /\ \E c \in Certs : Expiring(c)
  /\ Begin("reorder", "csr", {c \in Certs : Expiring(c)})

\* gen_named_conf
GenNamedConf == Begin("named", "named", {})

\* finalize_orders
FinalizeOrders == Begin("finalize", IF Ordered = {} THEN "close" ELSE "answer", Ordered)

-----------------------------------------------------------------------------
(* Placing orders                                                          *)

\* The loop of a command takes the first of those that are left.
First(c) == c \in todo /\ \A d \in todo : Rank[c] <= Rank[d]
At(step, c) == at = step /\ First(c)

\* openssl genrsa writes over the key.
GenKey(c) ==
  /\ At("key", c)
  /\ \E k \in Keys \ KeysOf(c) :
       /\ \A j \in Keys \ KeysOf(c) : k <= j
       /\ key' = [key EXCEPT ![c] = k]
  /\ unordered' = [unordered EXCEPT ![c] = TRUE]
  /\ GoTo("csr", todo)
  /\ UNCHANGED <<csr, crt, order, records, status>>

\* Mutant: a csr that is there is used again.
GenCsr_Reuse(c) ==
  /\ At("csr", c)
  /\ csr' = [csr EXCEPT ![c] = IF @ = NoKey THEN key[c] ELSE @]
  /\ IF todo = {c} THEN GoTo("check", batch) ELSE GoTo("csr", todo \ {c})
  /\ UNCHANGED <<key, crt, unordered, order, records, status>>

\* openssl req -new; reorder_expiring makes all of them before it orders any.
GenCsr(c) ==
  /\ At("csr", c)
  /\ csr' = [csr EXCEPT ![c] = key[c]]
  /\ IF todo = {c} THEN GoTo("check", batch) ELSE GoTo("csr", todo \ {c})
  /\ UNCHANGED <<key, crt, unordered, order, records, status>>

\* "existing order={}; orders may need to be purged"
ExistingOrder(c) ==
  /\ At("check", c) /\ c \in Ordered
  /\ Done /\ UNCHANGED <<tls, order, records, status>>

\* new_order, then the file with the order and its csr.  The authority may
\* know the domains already.  (Without the file its order has no effect.)
NewOrder(c) ==
  /\ At("check", c) /\ c \notin Ordered
  /\ \E s \in {"pending", "ready"} : status' = [status EXCEPT ![c] = s]
  /\ order' = [order EXCEPT ![c] = csr[c]]
  /\ unordered' = [unordered EXCEPT ![c] = @ /\ cmd = "order" /\ csr[c] # key[c]]
  /\ IF todo # {c} THEN GoTo("check", todo \ {c})
     ELSE IF cmd = "reorder" THEN GoTo("named", {})
     ELSE Done
  /\ UNCHANGED <<key, csr, crt, records>>

\* Mutant: only the challenges of the orders just placed.
WriteNamed_Batch ==
  /\ at = "named"
  /\ named' = TRUE
  /\ covered' = IF named THEN covered ELSE Ordered \cap batch
  /\ Done /\ UNCHANGED <<tls, order, dns, status>>

\* The challenges of all orders that are there; not if the file exists.
WriteNamed ==
  /\ at = "named"
  /\ named' = TRUE
  /\ covered' = IF named THEN covered ELSE Ordered
  /\ Done /\ UNCHANGED <<tls, order, dns, status>>

-----------------------------------------------------------------------------
(* finalize_orders, one order after the other; an error ends it.           *)

\* answer_challenge of each domain
AnswerChallenges(c) ==
  /\ At("answer", c)
  /\ status' = [status EXCEPT ![c] = IF @ = "pending" THEN "processing" ELSE @]
  /\ GoTo("remove_csr", todo)
  /\ UNCHANGED <<tls, order, records>>

RemoveCsr(c) ==
  /\ At("remove_csr", c)
  /\ csr' = [csr EXCEPT ![c] = NoKey]
  /\ GoTo("poll", todo)
  /\ UNCHANGED <<key, crt, unordered, order, records, status>>

\* Mutants: an order that fails is left for later; the file of an order goes
\* as soon as it is accepted.
PollAndFinalize_Continue(c) ==
  /\ At("poll", c)
  /\ \/ /\ status[c] = "ready"
        /\ status' = [status EXCEPT ![c] = "issued"]
        /\ GoTo("write", todo)
     \/ /\ status[c] \in {"invalid", "issued"}
        /\ IF todo = {c} THEN GoTo("close", {}) ELSE GoTo("answer", todo \ {c})
        /\ UNCHANGED status
  /\ UNCHANGED <<tls, order, records>>

PollAndFinalize_RemoveOrder(c) ==
  /\ At("poll", c)
  /\ IF status[c] = "ready" THEN Forget(c) /\ GoTo("write", todo)
     ELSE status[c] \in {"invalid", "issued"} /\ Done /\ UNCHANGED <<order, records, status>>
  /\ UNCHANGED tls

\* poll_and_finalize: wait until the domains are valid, then send the csr.  An
\* order can be finalized once.
PollAndFinalize(c) ==
  /\ At("poll", c)
  /\ \/ /\ status[c] = "ready"
        /\ status' = [status EXCEPT ![c] = "issued"]
        /\ GoTo("write", todo)
     \/ /\ status[c] \in {"invalid", "issued"}
        /\ Done /\ UNCHANGED status
  /\ UNCHANGED <<tls, order, records>>

WriteCrt(c) ==
  /\ At("write", c)
  /\ crt' = [crt EXCEPT ![c] = [key |-> order[c], state |-> "valid"]]
  /\ GoTo("unlink", todo)
  /\ UNCHANGED <<key, csr, unordered, order, records, status>>

RemoveOrder(c) ==
  /\ At("unlink", c)
  /\ Forget(c)
  /\ IF todo = {c} THEN GoTo("close", {}) ELSE GoTo("answer", todo \ {c})
  /\ UNCHANGED tls

\* "Removes named_conf_f once all certs are written"
RemoveNamed ==
  /\ at = "close"
  /\ named' = FALSE /\ covered' = {}
  /\ Done /\ UNCHANGED <<tls, order, dns, status>>

-----------------------------------------------------------------------------
(* What happens besides                                                    *)

\* A request fails or times out, openssl fails, or the process is killed.
Kill == cmd # "idle" /\ Done /\ UNCHANGED <<tls, order, records, status>>

\* The authority looks the challenges up.
Validate(c) ==
  /\ status[c] = "processing"
  /\ status' = [status EXCEPT ![c] = IF c \in dns THEN "ready" ELSE "invalid"]
  /\ UNCHANGED <<tls, order, records, command>>

\* The name servers get what letsencrypt-named.json says.
PublishDns ==
  /\ dns' = covered
  /\ UNCHANGED <<tls, order, named, covered, status, command>>

\* Time passes (commands take minutes, certificates last for weeks).
Expire(c) ==
  /\ cmd = "idle" /\ crt[c].state = "valid"
  /\ crt' = [crt EXCEPT ![c].state = "expiring"]
  /\ UNCHANGED <<key, csr, unordered, order, records, status, command>>

\* The operator removes an order, or letsencrypt-named.json, by hand.
PurgeOrder(c) ==
  /\ cmd = "idle" /\ c \in Ordered
  /\ Forget(c)
  /\ unordered' = [unordered EXCEPT ![c] = @ \/ order[c] # crt[c].key]
  /\ UNCHANGED <<key, csr, crt, command>>

PurgeNamed ==
  /\ cmd = "idle" /\ named
  /\ named' = FALSE /\ covered' = {}
  /\ UNCHANGED <<tls, order, dns, status, command>>

-----------------------------------------------------------------------------
\* A build host with no certificates, or with ones that are used.
Init ==
  /\ crt \in [Certs -> {NoCrt, [key |-> 1, state |-> "valid"]}]
  /\ key = [c \in Certs |-> crt[c].key]
  /\ csr = [c \in Certs |-> NoKey] /\ order = [c \in Certs |-> NoKey]
  /\ named = FALSE /\ covered = {} /\ dns = {} /\ status = [c \in Certs |-> "none"]
  /\ cmd = "idle" /\ at = "idle" /\ batch = {} /\ todo = {}
  /\ unordered = [c \in Certs |-> FALSE]

CommandStep ==
  \/ \E c \in Certs :
       \/ GenKey(c) \/ GenCsr(c) \/ ExistingOrder(c) \/ NewOrder(c)
       \/ AnswerChallenges(c) \/ RemoveCsr(c) \/ PollAndFinalize(c) \/ WriteCrt(c)
       \/ RemoveOrder(c)
  \/ WriteNamed \/ RemoveNamed

Next ==
  \/ CommandStep \/ ReorderExpiring \/ GenNamedConf \/ FinalizeOrders
  \/ \E c \in Certs : \/ OrderWithNewKey(c) \/ OrderWithKey(c) \/ Order(c)
                      \/ Expire(c) \/ PurgeOrder(c) \/ Validate(c)
  \/ Kill \/ PublishDns \/ PurgeNamed

Spec == Init /\ [][Next]_vars

-----------------------------------------------------------------------------
(* Properties                                                              *)

\* Every variable has its type, and a step that works on a certificate has one.
TypeOK ==
  /\ key \in [Certs -> Keys \cup {NoKey}] /\ csr \in [Certs -> Keys \cup {NoKey}]
  /\ crt \in [Certs -> [key : Keys \cup {NoKey}, state : {"none", "valid", "expiring"}]]
  /\ order \in [Certs -> Keys \cup {NoKey}]
  /\ named \in BOOLEAN /\ covered \subseteq Ordered /\ dns \subseteq Ordered
  /\ status \in [Certs -> {"none", "pending", "processing", "ready", "invalid", "issued"}]
  /\ cmd \in {"idle", "order", "order_key", "reorder", "named", "finalize"}
  /\ at \in {"idle", "key", "csr", "check", "named", "answer", "remove_csr", "poll", "write",
             "unlink", "close"}
  /\ batch \subseteq Certs /\ todo \subseteq batch
  /\ todo = {} => at \in {"idle", "named", "close"}
  /\ unordered \in [Certs -> BOOLEAN]

\* No order is lost: unless the operator removes it, its file goes only when
\* the certificate it was for is there, wherever commands are killed.
OrderLeavesCrt ==
  [][\A c \in Ordered : cmd # "idle" /\ order'[c] = NoKey
       => crt[c] = [key |-> order[c], state |-> "valid"]]_vars

\* When no order is open, what the next build publishes is a certificate and
\* the key it is for.  Exceptions: a new key for which order_with_new_csr_and_key
\* could place no order, since it writes over the key before it finds out; and a
\* new key whose order the operator removed.
PairFits ==
  \A c \in Certs : crt[c].key # NoKey /\ c \notin Ordered /\ ~unordered[c]
                    => crt[c].key = key[c]

\* letsencrypt-named.json, when it is written, lists the challenges of every
\* order that is open, also of those that an earlier command left behind;
\* reorder_expiring has then ordered all that expire.
NamedCoversOrders ==
  [][~named /\ named' => /\ Ordered \subseteq covered'
                         /\ cmd = "reorder" => \A c \in Certs : Expiring(c) => c \in covered']_vars

\* "Removes named_conf_f once all certs are written": the challenges stay
\* published until every order that was in the file has its certificate.
NamedGoesLast == [][cmd # "idle" /\ named /\ ~named' => covered = {}]_vars

-----------------------------------------------------------------------------
(* The inductive invariant behind the properties                           *)

\* finalize_orders has all open orders before it, and unlinks the file of one
\* whose certificate it has written.
FinalInv ==
  /\ at \in {"answer", "remove_csr", "poll", "write", "unlink", "close"} => cmd = "finalize"
  /\ cmd = "finalize" => Ordered = todo
  /\ at = "close" => todo = {}
  /\ at = "unlink" =>
       \A c \in todo : First(c) => crt[c] = [key |-> order[c], state |-> "valid"]

\* What has a certificate, a csr or an order has a key.
KeyInv ==
  \A c \in Certs :
    /\ crt[c].key # NoKey => key[c] # NoKey
    /\ csr[c] # NoKey \/ c \in Ordered => key[c] # NoKey
    /\ crt[c].state # "none" => crt[c].key # NoKey

\* A command that makes a csr makes it with the key that is there.
CsrInv ==
  /\ cmd = "order" => at = "check"
  /\ at \in {"key", "csr", "check"} => cmd \in {"order", "order_key", "reorder"}
  /\ at = "key" => cmd = "order_key" /\ todo = batch /\ \A c, d \in batch : c = d
  /\ at = "csr" => /\ \A c \in batch : key[c] # NoKey
                  /\ \A c \in batch \ todo : csr[c] = key[c]
  /\ at = "check" => \A c \in todo : csr[c] # NoKey
  /\ at = "check" /\ cmd # "order" => \A c \in todo : csr[c] = key[c]

\* Unless a new key waits for its order, csr and order are for the key that is
\* there, and so is the certificate when there is no order.
PairInv ==
  \A c \in Certs : ~unordered[c] =>
    /\ csr[c] # NoKey => csr[c] = key[c]
    /\ c \in Ordered => order[c] = key[c]
    /\ c \notin Ordered /\ crt[c].key # NoKey => crt[c].key = key[c]

\* reorder_expiring has ordered, or has yet to order, what expires.
ReorderInv ==
  cmd = "reorder" =>
    \A c \in Certs : Expiring(c) =>
      /\ at = "csr" => c \in batch
      /\ at = "check" => c \in Ordered \cup todo
      /\ at = "named" => c \in Ordered

\* The conjunction that every step preserves.
IInv == TypeOK /\ FinalInv /\ KeyInv /\ CsrInv /\ PairInv /\ ReorderInv
=============================================================================
