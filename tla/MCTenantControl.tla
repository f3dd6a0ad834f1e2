-------------------------- MODULE MCTenantControl --------------------------
(* A small instance of TenantControl for TLC: a tenant that is scaled and   *)
(* paused, the same tenant disabled, one that is kept at work, and one      *)
(* whose limits have shrunk.                                                *)
EXTENDS TenantControl

Conf(disabled, autoPause, min, max, lower, upper) ==
  [disabled |-> disabled, autoPause |-> autoPause, min |-> min, max |-> max,
   init |-> min, lower |-> lower, upper |-> upper]

MCRegistered == Conf(FALSE, TRUE, 1, 3, 40, 60)

MCConfs ==
  {MCRegistered, Conf(TRUE, TRUE, 1, 3, 40, 60),
   Conf(FALSE, FALSE, 3, 3, 20, 80), Conf(FALSE, TRUE, 1, 1, 40, 60)}
=============================================================================
