---------------------------- MODULE RefreshTokens ----------------------------
(***************************************************************************)
(* The table refresh_tokens and the operations of app.auth.service on it.  *)
(* Tokens are numbered in the order of issue; 0 stands for "no token".  A  *)
(* row is usable until it is revoked or expires.  rotate_refresh reads the *)
(* row and writes it in one transaction but takes no lock: Usable is what  *)
(* the read decides, RotateRefresh what the commit does, and a component   *)
(* that uses them decides what may happen in between.                      *)
(***************************************************************************)
EXTENDS Integers, FiniteSets

CONSTANT MaxTokens     \* bound: the refresh tokens issued in a behaviour

ASSUME MaxTokensAssumption == MaxTokens \in Nat \ {0}

NoToken == 0

VARIABLES
    issued,     \* the number of rows
    revoked,    \* rows with revoked_at set
    expired,    \* rows 1..expired have expires_at in the past (all rows live
                \* equally long, so they expire in the order of issue)
    parent      \* the row a row replaced (replaced_by_jti read backwards)

tokenVars == <<issued, revoked, expired, parent>>

Tokens == 1..issued

TokensTypeOK ==
    /\ issued \in 0..MaxTokens
    /\ revoked \subseteq Tokens
    /\ expired \in 0..issued
    /\ parent \in [1..MaxTokens -> 0..MaxTokens]
    /\ \A t \in 1..MaxTokens : parent[t] < t

Init ==
    /\ issued = 1
    /\ revoked = {}
    /\ expired = 0
    /\ parent = [t \in 1..MaxTokens |-> NoToken]

Issue(replaced) ==
    /\ issued < MaxTokens
    /\ issued' = issued + 1
    /\ parent' = [parent EXCEPT ![issued + 1] = replaced]

\* A login adds a row that replaces none.
Authenticate ==
    /\ Issue(NoToken)
    /\ UNCHANGED <<revoked, expired>>

\* Defect for the mutant run: a revoked row is accepted.
MutUsable(t) == t \in Tokens /\ t > expired
\* What rotate_refresh demands of the row it has read.
Usable(t) == t \in Tokens /\ t \notin revoked /\ t > expired

\* Defect for the mutant run: the successor is returned but never added.
MutRotateRefresh(t) ==
    /\ revoked' = revoked \cup {t}
    /\ UNCHANGED <<issued, parent, expired>>
\* The commit of rotate_refresh.  It trusts the earlier read: a row another
\* request has revoked meanwhile gets a second successor.
RotateRefresh(t) ==
    /\ Issue(t)
    /\ revoked' = revoked \cup {t}
    /\ UNCHANGED expired

\* Defect for the mutant run: the row is left as it is.
MutRevokeRefresh(t) == UNCHANGED tokenVars
\* revoke_refresh asks neither whether the row expired nor whether it is
\* already revoked; an unknown token is ignored.
RevokeRefresh(t) ==
    /\ revoked' = revoked \cup ({t} \cap Tokens)
    /\ UNCHANGED <<issued, expired, parent>>

\* The oldest unexpired row reaches its expires_at.
Expire ==
    /\ expired < issued
    /\ expired' = expired + 1
    /\ UNCHANGED <<issued, revoked, parent>>

Successors(t) == {s \in Tokens : parent[s] = t}
===============================================================================
