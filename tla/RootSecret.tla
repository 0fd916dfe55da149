----------------------------- MODULE RootSecret -----------------------------
(***************************************************************************)
(* What the configuration of an encrypted root promises to whoever knows   *)
(* the password: a register that holds nothing, or a password, the content *)
(* key it unlocks and a public hint, and that changes in one step.  A step *)
(* that changes the password leaves the hint alone and the other way       *)
(* round, and the content key never changes: every update was computed     *)
(* from the value it replaces.  Until a value is synced, a power failure   *)
(* may bring back one that was current since the last sync.                *)
(***************************************************************************)
CONSTANT Nothing      \* the register before a root was created

VARIABLES secret,     \* Nothing, or [pw, key, hint]
          kept        \* what a power failure may leave in the register

vars == <<secret, kept>>

Init == secret = Nothing /\ kept = {Nothing}

\* A creation is never synced: it may be lost again.
Create == /\ secret = Nothing
          /\ secret' # Nothing
          /\ secret' \in kept' /\ kept' \subseteq {Nothing, secret'}

Replaces == /\ secret # Nothing /\ secret' # Nothing
            /\ secret'.key = secret.key
            /\ kept' = kept \cup {secret'}

ChangePassword == Replaces /\ secret'.hint = secret.hint

UpdateHint == Replaces /\ secret'.pw = secret.pw

Sync == kept' = {secret} /\ UNCHANGED secret

PowerFailure == secret' \in kept /\ kept' = {secret'}

Next == Create \/ ChangePassword \/ UpdateHint \/ Sync \/ PowerFailure

Spec == Init /\ [][Next]_vars
=============================================================================
