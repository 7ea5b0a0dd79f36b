----------------------------- MODULE MCCheckout -----------------------------
(* Three swapped paths, one of them missing at first, two thread databases *)
(* and one catalogue.                                                      *)
EXTENDS Checkout

CONSTANTS sessions, archived_sessions, global_state, state_db, logs_db, catalog_db

MCSwaps == <<sessions, archived_sessions, global_state>>
MCMissing == {archived_sessions}
MCDbs == <<state_db, logs_db>>
MCCatalogs == <<catalog_db>>
=============================================================================
