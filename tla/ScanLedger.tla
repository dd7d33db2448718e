------------------------------ MODULE ScanLedger ------------------------------
(***************************************************************************)
(* What the store promises a reader about the scans of every run: a scan   *)
(* is registered once, its products become readable one at a time and stay *)
(* readable, and it turns complete exactly when a product is attached and  *)
(* all the required ones can be read.  A processing failure is recorded in *)
(* the phase and takes no product away.                                    *)
(*                                                                         *)
(* The module ScanStore shows how one object directory, two databases and  *)
(* processes that may die between any two writes keep this promise.        *)
(***************************************************************************)
CONSTANTS
  Keys,            (* the (run_id, scan_id) pairs                            *)
  Products,        (* the products a scan may have                           *)
  Required         (* REQUIRED_SCAN_PRODUCTS                                 *)

VARIABLES
  phase,           (* the status of each scan                                *)
  readable         (* the products of each scan that a reader can open       *)

ledger == <<phase, readable>>

Init ==
  /\ phase = [k \in Keys |-> "absent"]
  /\ readable = [k \in Keys |-> {}]

(* Catalog.register_scan: an upsert that never resets a status. *)
Register(k) ==
  /\ phase[k] = "absent"
  /\ phase' = [phase EXCEPT ![k] = "pending"]
  /\ UNCHANGED readable

(* Catalog.link_scan_product. *)
Attach(k, p) ==
  /\ phase[k] # "absent"
  /\ readable' = [readable EXCEPT ![k] = @ \union {p}]
  /\ phase' = [phase EXCEPT ![k] =
       IF Required \subseteq readable'[k] THEN "complete" ELSE @]

(* Catalog.mark_scan_failed. *)
Fail(k) ==
  /\ phase[k] # "absent"
  /\ phase' = [phase EXCEPT ![k] = "failed"]
  /\ UNCHANGED readable

Next == \E k \in Keys : Register(k) \/ Fail(k) \/ \E p \in Products : Attach(k, p)

Spec == Init /\ [][Next]_ledger
===============================================================================
