----------------------------- MODULE MCMetaSync -----------------------------
(* Instances of MetaSync for TLC. *)
EXTENDS MetaSync, TLC

CONSTANTS MaxTrouble, MaxUsage

(* At most MaxTrouble failures and cuts.                                     *)
LittleTrouble == faults + cuts <= MaxTrouble

(* A line is used at most MaxUsage times.                                    *)
LittleUsage == \A l \in Line : MapThenSumSet(LAMBDA d : usage[l][d], Day) <= MaxUsage

(* The two synchronisations share no more than the existence of rows and the *)
(* ticker that runs both.  In some behaviours phone numbers are changed and  *)
(* synchronised by requests; in the others, where Meta has ceased to list    *)
(* them, time passes, lines are used and requests synchronise prices.        *)
PhonesAtRest == /\ listed = {}
                /\ profile = [n \in Number |-> IF n \in known THEN 1 ELSE 0]
                /\ at[Ticker] \notin {"upsert", "fetch", "profile"}
                /\ company = [n \in Number |-> None]
                /\ active = [n \in Number |-> TRUE]
                /\ published = [n \in Number |-> 1]
                /\ heard = [n \in Number |-> None]
                /\ \A p \in Syncer \ {Ticker} : at[p] \in {"idle", "mark", "ask", "store"}
PricesAtRest == /\ usage = [l \in Line |-> [d \in Day |-> 0]]
                /\ now = Begin(1)
                /\ \A p \in Syncer \ {Ticker} : at[p] \notin {"mark", "ask", "store"}
OneSide == PhonesAtRest \/ PricesAtRest
=============================================================================
