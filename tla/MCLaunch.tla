------------------------------ MODULE MCLaunch ------------------------------
EXTENDS Launch

(* PAM makes a difference here only with the native executor, and without  *)
(* it that one does what it does when PAM sets no variable.                *)
MCBuilds ==
  {[backend |-> b, pam |-> b = "scopex"] : b \in {"systemd", "run0", "scopex"}}
=============================================================================
