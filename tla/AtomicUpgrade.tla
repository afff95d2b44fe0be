---------------------------- MODULE AtomicUpgrade ----------------------------
(* What an upgrade of the engine promises to everything that starts later:    *)
(* the engine and the Python environment that belongs to it change together,  *)
(* in one step, and only towards a later release.                             *)
EXTENDS Naturals

CONSTANTS Releases,      \* release sequence numbers
          First,         \* the release of the first installation
          NeedsVenv      \* releases that bring a Python environment of their own

VARIABLE installed       \* the engine and the environment a new run would use

AtomicInit == installed = [engine |-> First, venv |-> First]

Install(r) ==
    /\ r > installed.engine
    /\ installed' = [engine |-> r, venv |-> IF r \in NeedsVenv THEN r ELSE installed.venv]

AtomicNext == \E r \in Releases : Install(r)

AtomicSpec == AtomicInit /\ [][AtomicNext]_installed
==============================================================================
