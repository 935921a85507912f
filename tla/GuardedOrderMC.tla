--------------------------- MODULE GuardedOrderMC ---------------------------
(* A share whose ticker is given to another one with a larger lot.  The    *)
(* requests and the files meet every check and pass or fail it.            *)
EXTENDS GuardedOrder

CONSTANTS p1, p2, uid, ticker, bad

MCProcs == {p1, p2}
MCKeys  == {uid, ticker}

Paper(name, l, cur) == [name |-> name, lot |-> l, currency |-> cur, step |-> 2]
old == Paper("old", 1, "rub")
new == Paper("new", 4, "rub")

MCInsts   == {old, new}
MCNamesOf == [i \in MCInsts |-> IF i = old THEN {uid, ticker} ELSE {ticker}]

Request(k, t, n, p, r) ==
    [kind |-> k, type |-> t, lots |-> n, price |-> p, resting |-> r, stop |-> None]
Stop(t, n, p, s) == [Request("stop", t, n, p, None) EXCEPT !.stop = s]
Plain == Request("place", "limit", 2, 2, None)
MCOrders == {Plain, Request("place", "limit", 4, 4, None),
             Request("place", "market", 2, None, None), Request("place", "limit", 2, -6, None),
             Request("replace", "limit", 4, None, 2), Request("replace", "market", 1, None, None),
             Request("place", "limit", 0, 3, None), Request("replace", "limit", 1, 3, 2),
             Stop("limit", 2, 4, 4), Stop("market", 2, None, 6), Stop("market", 1, None, -2),
             Stop("limit", 1, 2, 3)}

File(a, n, c, m) ==
    [readable |-> TRUE, allowed_instruments |-> a, max_lots |-> n, max_notional |-> c,
     currency |-> "rub", allow_market_orders |-> m]
MCFiles == {None, File({uid}, None, 10, FALSE), File({ticker}, 2, None, TRUE),
            File({}, 0, 10, TRUE), [File({}, None, None, TRUE) EXCEPT !.readable = FALSE]}

(* Either one command, with every request and every file; or two that meet *)
(* in the cache, which nothing of the request and the file touches.        *)
Alone   == pc'[p2] = "start"
Meeting == file = CHOOSE f \in MCFiles : f # None /\ f.allowed_instruments = {uid}

MCSpec ==
    /\ GuardInit
    /\ answer = [k \in Keys |-> old]
    /\ [][/\ GuardNext
          /\ ~Alone => /\ Meeting
                       /\ \A p \in Procs : order'[p] \in {None, Plain}
                       /\ key'[p1] # bad /\ key'[p2] \in {None, ticker}]_guardVars
=============================================================================
