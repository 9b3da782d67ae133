------------------------------ MODULE MCAccounts ------------------------------
(* TLC's instances of Accounts. *)
EXTENDS Accounts, TLC

CONSTANTS x, y, home, office, proxy

AccountSymmetry == Permutations(Tokens) \cup Permutations(Requests)

(* The limiter shares no row with the rest of the server, and nothing else reads *)
(* its clock.  Some of the states show time passing and two entries that every     *)
(* kind of connection meets in, on a server without rows that does nothing with   *)
(* the requests it lets through; ...                                              *)
LimiterAlone ==
    /\ ~cfg.seed /\ cfg.open /\ crashes = 0
    /\ Registered = {}
    /\ window[IF cfg.trust THEN proxy ELSE office] = NoEntry
    /\ \A r \in Requests : pc[r] = "idle" \/ op[r] = [kind |-> "login", email |-> x]
    /\ \E r \in Requests :
        pc[r] \in {"idle", "find_user"} /\ \A q \in Requests \ {r} : pc[q] = "idle"

(* ... the others show everything else, with the attempts of one client at one time. *)
OneClient ==
    /\ clock = 0 /\ ~cfg.trust
    /\ \A a \in Addresses \ {home} : window[a] = NoEntry

LimiterOrRows == LimiterAlone \/ OneClient
=============================================================================
