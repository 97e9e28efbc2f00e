------------------------------ MODULE MCDbmsPool ------------------------------
(* Model checking of the connection pool: three requests compete for one   *)
(* connection, every fault may happen at any time.  The instances of       *)
(* MCSettingManager have two connections.                                  *)
EXTENDS DbmsPool

CONSTANTS t1, t2, t3, c1
MCThreads == {t1, t2, t3}
MCConns   == {c1}
===============================================================================
