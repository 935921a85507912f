---------------------------- MODULE GuardedOrder ----------------------------
(***************************************************************************)
(* What stands between a request to place an order or a stop order, or to  *)
(* replace an order, and the broker: the checks of its shape, the policy   *)
(* file, the instrument that the id resolves to, and the policy checks     *)
(* that need the instrument's lot and currency, which may come from the    *)
(* cache.                                                                  *)
(*                                                                         *)
(* The kill switch, the account lock and the count of open orders, which   *)
(* come between these checks and the send, are those of OrderAdmission.    *)
(* Prices and the cap are integers; big.Int and big.Rat make the product   *)
(* of the code exact too.                                                  *)
(***************************************************************************)
EXTENDS InstrumentCache

CONSTANTS Orders,      \* requests, as records
          PolicyFiles  \* contents of the policy file, as records; or None

ASSUME GuardAssumption ==
    /\ \A o \in Orders :
         /\ o.kind \in {"place", "replace", "stop"}
         /\ o.type \in {"limit", "market"}  \* market stands for bestprice too, and
                                           \* for stop orders other than stop-limit
         /\ o.lots \in Int
         /\ o.price \in Int \cup {None}
         /\ o.resting \in Int \cup {None}   \* the price of the order replaced
         /\ o.stop \in Int \cup {None}      \* the stop price
         /\ o.kind # "replace" => o.resting = None
         /\ o.kind # "stop" => o.stop = None
    /\ \A f \in PolicyFiles \ {None} :
         /\ f.readable \in BOOLEAN /\ f.allow_market_orders \in BOOLEAN
         /\ f.allowed_instruments \subseteq Keys
         /\ f.max_lots \in Int \cup {None} /\ f.max_notional \in Int \cup {None}
    /\ \A i \in Insts : i.lot \in Int /\ i.step \in Int

VARIABLES order,  \* Procs -> its request; None until it is through CheckLocal
          file    \* the policy file

guardVars == <<cacheVars, order, file>>

GuardTypeOK == CacheTypeOK /\ order \in [Procs -> Orders \cup {None}] /\ file \in PolicyFiles

GuardInit == CacheInit /\ order = [p \in Procs |-> None] /\ file \in PolicyFiles

-----------------------------------------------------------------------------
(* Mutant: a cap that is set to zero passes for one that is not set.       *)
LoadFailsUnlessReadable == file # None /\ ~file.readable

(* policy.Load: no path, no guardrails; what cannot be read, or sets a cap *)
(* that would never bind, is refused.                                      *)
LoadFails ==
    /\ file # None
    /\ \/ ~file.readable
       \/ file.max_lots # None /\ file.max_lots <= 0
       \/ file.max_notional # None /\ (file.max_notional <= 0 \/ file.currency = "")

(* stoporders.ValidateBasics: unlike an order's, a stop order's prices are  *)
(* positive.  Expiration and trailing fields are not modelled.             *)
StopMisshapen(o) ==
    \/ o.stop = None \/ o.stop <= 0
    \/ (o.type = "limit") # (o.price # None)
    \/ o.price # None /\ o.price <= 0

(* orders.ValidateBasics for a placement; a replacement needs its quantity *)
(* only.                                                                   *)
Misshapen(o) ==
    \/ o.lots <= 0
    \/ o.kind = "place" /\ (o.type = "limit") # (o.price # None)
    \/ o.kind = "stop" /\ StopMisshapen(o)

(* CheckLocal: a cap that is not positive never binds.                     *)
TooManyLots(o) ==
    /\ file # None
    /\ file.max_lots # None /\ file.max_lots > 0
    /\ o.lots > file.max_lots

(* Mutant: a replacement is not asked for its type once it is known.       *)
MarketBarredOnPlacement(o) ==
    file # None /\ ~file.allow_market_orders /\ o.type = "market" /\ o.kind = "place"

(* A stop order passes for a limit order.                                  *)
MarketBarred(o) ==
    file # None /\ ~file.allow_market_orders /\ o.type = "market" /\ o.kind # "stop"

LocalViolation(o) == MarketBarred(o) \/ TooManyLots(o)

NotAllowed(k, i) ==
    /\ file # None
    /\ file.allowed_instruments # {}
    /\ file.allowed_instruments \cap (NamesOf[i] \cup {k}) = {}

Abs(n) == IF n < 0 THEN -n ELSE n

(* Mutant: the price that was given.                                       *)
PolicyPriceGiven(o) == o.price

(* The price the cap is applied to: a replacement without one keeps the    *)
(* price of the order, for a stop order it is the stop price.              *)
PolicyPrice(o) ==
    CASE o.kind = "stop" -> o.stop
      [] o.kind = "replace" /\ o.price = None -> o.resting
      [] OTHER -> o.price

(* Mutants of Notional: the product in a machine word, of 4 bits here; a   *)
(* negative price as it is.                                                *)
NotionalWrapped(o, i) == (Abs(PolicyPrice(o)) * o.lots * i.lot) % 16
NotionalSigned(o, i)  == PolicyPrice(o) * o.lots * i.lot

Notional(o, i) == Abs(PolicyPrice(o)) * o.lots * i.lot

(* checkNotional: an order without a price passes; unknown currency or lot *)
(* do not.                                                                 *)
OverNotional(o, i) ==
    /\ file # None
    /\ file.max_notional # None
    /\ PolicyPrice(o) # None
    /\ \/ i.currency # file.currency
       \/ i.lot <= 0
       \/ Notional(o, i) > file.max_notional

(* replacementPolicyViolation repeats the local checks with what the       *)
(* broker said of the order.                                               *)
ResolvedViolation(o, k, i) ==
    \/ o.kind = "replace" /\ LocalViolation(o)
    \/ NotAllowed(k, i)
    \/ OverNotional(o, i)

(* ValidatePriceIncrement, of both prices of a stop-limit order.           *)
OffIncrement(o, i) ==
    \E price \in {o.price, o.stop} \ {None} : i.step # 0 /\ Abs(price) % Abs(i.step) # 0

-----------------------------------------------------------------------------
(* A request that is refused here is not kept; a replacement's type is not *)
(* known yet.                                                              *)
RefusedAtOnce(o) ==
    \/ Misshapen(o)
    \/ LoadFails
    \/ TooManyLots(o)
    \/ o.kind = "place" /\ LocalViolation(o)

CheckLocal(p) ==
    /\ pc[p] = "start"
    /\ \/ /\ \E o \in Orders : RefusedAtOnce(o)
          /\ End(p, "refused")
          /\ UNCHANGED order
       \/ \E k \in Keys \cup Malformed, o \in Orders :
            /\ ~RefusedAtOnce(o)
            /\ key' = [key EXCEPT ![p] = k]
            /\ order' = [order EXCEPT ![p] = o]
            /\ Goto(p, "resolve")
            /\ UNCHANGED <<fd, data, asked, got, gotAt>>
    /\ UNCHANGED <<answer, lastTrue, now, files, file>>

Forget == order' = [p \in Procs |-> IF key'[p] = None THEN None ELSE order[p]]

SendUnless(p, barred) ==
    /\ pc[p] = "resolved"
    /\ IF barred THEN End(p, "refused")
       ELSE Goto(p, "sent") /\ UNCHANGED <<key, fd, data, asked, got, gotAt>>
    /\ Forget
    /\ UNCHANGED <<answer, lastTrue, now, files, file>>

(* Mutant: the instrument's part of the policy is left out.                *)
CheckResolvedIncrementOnly(p) == SendUnless(p, OffIncrement(order[p], got[p]))

CheckResolved(p) ==
    SendUnless(p, \/ ResolvedViolation(order[p], key[p], got[p])
                  \/ OffIncrement(order[p], got[p]))

GuardNext ==
    \/ \E p \in Procs : CheckLocal(p) \/ CheckResolved(p)
    \/ (\E p \in Procs : Resolve(p) \/ Crash(p)) /\ Forget /\ UNCHANGED file
    \/ (BrokerChanges \/ Tick) /\ UNCHANGED <<order, file>>

GuardSpec == GuardInit /\ [][GuardNext]_guardVars

-----------------------------------------------------------------------------
PriceAtStake(o) ==
    IF o.stop # None THEN o.stop ELSE IF o.price # None THEN o.price ELSE o.resting

(* The rules of the policy file, as the README gives them, for an order on *)
(* an instrument; a rule that is in the file binds, whatever its value.    *)
(* allow_shorts, which the README (src/README.md:150) marks as a TODO and  *)
(* the code only parses (policy.go:87), is not among them.                 *)
KeepsPolicy(o, k, i) ==
    file # None =>
        /\ file.max_lots # None => o.lots <= file.max_lots
        /\ o.type = "market" /\ o.kind # "stop" => file.allow_market_orders
        /\ file.allowed_instruments # {} =>
             \E name \in file.allowed_instruments : name = k \/ name \in NamesOf[i]
        /\ file.max_notional # None /\ PriceAtStake(o) # None =>
             /\ i.currency = file.currency
             /\ i.lot > 0
             /\ PriceAtStake(o) * o.lots * i.lot \in -file.max_notional..file.max_notional

(* No order goes out that breaks a rule of the policy file for what its id *)
(* meant at the broker within the TTL and a call: a torn cache or an entry *)
(* under a wrong id, an overflow, a zero cap or a changed lot size may     *)
(* cost a lookup or a refusal, never more than the TTL allows.  Lot sizes  *)
(* and currencies edited in the cache under their right id are outside it  *)
(* (CacheInit).                                                            *)
SentIsWithinPolicy ==
    \A p \in Procs : pc[p] = "sent" =>
        \E i \in Insts :
            Recent(key[p], i, gotAt[p]) /\ KeepsPolicy(order[p], key[p], i)
=============================================================================
