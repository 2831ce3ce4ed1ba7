------------------------- MODULE AccountSessionProofs -------------------------
(***************************************************************************)
(* Machine-checked proofs about AccountSession, for any set of tabs, any   *)
(* number of refresh tokens and any number of requests left adrift.        *)
(*                                                                         *)
(* UsedOnce and LogoutIsFinal speak of the rows of the server alone, but   *)
(* what keeps them true is where each token is: in the cookie, on its way  *)
(* to the browser, or in a request.  IInv follows a token through that     *)
(* life.  It is nobody's but its answer's until the answer is stored       *)
(* (Fresh), it is stored once, and when its own successor has been stored  *)
(* it is nowhere any more (HandedOver); while it is somewhere, two         *)
(* requests that carry it have met (Meetings), so a request that still     *)
(* trusts its read of a row revoked meanwhile is one of those (Reads).     *)
(* A request that its client gives up changes hands and keeps its token,   *)
(* and its answer is heard by nobody (Unheard).                            *)
(***************************************************************************)
EXTENDS AccountSession, FiniteSetTheorems, TLAPS

\* What a request looks like at each of its stages.
Stages ==
    \A b \in Callers, o \in Ops :
        /\ call[b][o].stage = "idle" => call[b][o] = Idle
        /\ call[b][o].stage # "answered" => call[b][o].new = NoToken
        /\ call[b][o].stage = "read" => call[b][o].token \in Tokens
        /\ o = "logout" => call[b][o].stage # "read" /\ call[b][o].new = NoToken
        /\ call[b][o].new # NoToken =>
              call[b][o].token \in Tokens /\ parent[call[b][o].new] = call[b][o].token

\* A request without a client is over when it is answered.
Unheard == \A a \in Adrift, o \in Ops : call[a][o].stage # "answered"

\* A row is revoked because it was replaced or because its session was ended.
Revocations ==
    /\ \A s \in Tokens : parent[s] # NoToken => parent[s] \in revoked
    /\ \A t \in revoked : t \in loggedOut \/ \E s \in Tokens : parent[s] = t
    /\ loggedOut \subseteq revoked

\* Two requests that carry one token have met.
Meetings ==
    \A b, c \in Callers, o, p \in Ops :
        /\ <<b, o>> # <<c, p>>
        /\ call[b][o].token = call[c][p].token
        /\ call[b][o].token # NoToken
        => call[b][o].token \in met

\* An exchange goes on with a row another request has revoked only if the two
\* have met.
Reads ==
    \A b \in Callers :
        call[b]["refresh"].stage = "read" /\ call[b]["refresh"].token \in revoked
        => call[b]["refresh"].token \in met

\* A token on its way to the browser is known to no one else.
Fresh ==
    \A b \in Callers :
        LET n == call[b]["refresh"].new
        IN  n # NoToken =>
              /\ cookie # n
              /\ \A s \in Tokens : parent[s] # n
              /\ \A c \in Callers, p \in Ops : call[c][p].token # n
              /\ \A c \in Callers : call[c]["refresh"].new = n => c = b

\* A token that was replaced, by one request at a time and with no answer lost,
\* is out of the browser as soon as its successor is in it.
HandedOver ==
    \A s \in Tokens :
        parent[s] # NoToken /\ parent[s] \notin met \cup lost =>
            \/ \E b \in Callers : call[b]["refresh"].new = s
            \/ /\ cookie # parent[s]
               /\ \A c \in Callers, p \in Ops : call[c][p].token # parent[s]

\* A token has at most one successor unless two requests with it have met.
OneSuccessor ==
    \A s, u \in Tokens :
        s # u /\ parent[s] # NoToken /\ parent[s] = parent[u] => parent[s] \in met

\* Once the cookie is gone, somebody has logged out.
NoCookie ==
    /\ cookie = NoToken => loggedOut # {}
    /\ \A b \in Callers, o \in Ops :
          Out(b, o) /\ call[b][o].token = NoToken => loggedOut # {}
    /\ \A b \in Callers : call[b]["logout"].stage = "answered" => loggedOut # {}

\* An exchange is refused for one of the reasons that excuse it.
Refusals ==
    \A b \in Callers :
        call[b]["refresh"].stage = "answered" /\ call[b]["refresh"].new = NoToken
        => Excused(call[b]["refresh"].token)

IInv ==
    /\ TypeOK
    /\ Stages
    /\ Unheard
    /\ Revocations
    /\ Meetings
    /\ Reads
    /\ Fresh
    /\ HandedOver
    /\ OneSuccessor
    /\ LogoutIsFinal
    /\ NoCookie
    /\ Refusals

-------------------------------------------------------------------------------
(* Facts about the operators.                                               *)

Calls(n) == [stage : {"idle", "sent", "read", "answered"}, token : 0..n, new : 0..n]

\* What a write of one request of one tab does to all of them.
LEMMA CallWrite ==
    ASSUME NEW S, call \in [Callers -> [Ops -> S]],
           NEW b \in Callers, NEW o \in Ops, NEW v \in S,
           call' = [call EXCEPT ![b][o] = v]
    PROVE  /\ call' \in [Callers -> [Ops -> S]]
           /\ call'[b][o] = v
           /\ \A c \in Callers, p \in Ops : <<c, p>> # <<b, o>> => call'[c][p] = call[c][p]
OBVIOUS

\* A set with more than one element has two.
LEMMA TwoElements ==
    ASSUME NEW S, IsFiniteSet(S), Cardinality(S) > 1
    PROVE  \E x, y \in S : x # y
<1>1. S # {}
  BY FS_EmptySet
<1>2. PICK x \in S : TRUE
  BY <1>1
<1>3. /\ IsFiniteSet(S \ {x})
      /\ Cardinality(S \ {x}) = Cardinality(S) - 1
  BY <1>2, FS_RemoveElement
<1>4. Cardinality(S) \in Nat
  BY FS_CardinalityType
<1>5. S \ {x} # {}
  BY <1>3, <1>4, FS_EmptySet
<1> QED
  BY <1>5

LEMMA SuccessorsFinite == ASSUME TypeOK, NEW t PROVE IsFiniteSet(Successors(t))
<1>1. IsFiniteSet(Tokens)
  BY FS_Interval DEF TypeOK, TokensTypeOK, Tokens
<1> QED
  BY <1>1, FS_Subset DEF Successors

\* A row is issued after the one it replaces.
LEMMA ParentIsOlder ==
    ASSUME TypeOK
    PROVE  /\ issued \in Nat
           /\ \A s \in Tokens : /\ s \in 1..MaxTokens /\ s # NoToken
                                /\ parent[s] \in 0..MaxTokens /\ parent[s] < s
<1>1. issued \in 0..MaxTokens /\ MaxTokens \in Nat
  BY MaxTokensAssumption DEF TypeOK, TokensTypeOK
<1>2. \A s \in Tokens : s \in 1..MaxTokens /\ s # NoToken
  BY <1>1 DEF Tokens, NoToken
<1> QED
  BY <1>1, <1>2 DEF TypeOK, TokensTypeOK

LEMMA InitIInv == AccountInit => IInv
<1> SUFFICES ASSUME AccountInit PROVE IInv
  OBVIOUS
<1> USE MaxTokensAssumption DEF AccountInit, Init, NoToken
<1>1. \A b \in Callers, o \in Ops : call[b][o] = Idle
  OBVIOUS
<1>2. TypeOK
  BY <1>1 DEF TypeOK, TokensTypeOK, Tokens, Ops, Idle, Pages
<1>3. Stages
  BY <1>1 DEF Stages, Idle
<1>7. NoCookie
  BY <1>1 DEF NoCookie, Idle, Out, Ops
<1>4. Revocations /\ OneSuccessor /\ LogoutIsFinal
  BY DEF Revocations, OneSuccessor, LogoutIsFinal, Tokens
<1>5. Meetings /\ Reads /\ Fresh /\ Refusals
  BY <1>1 DEF Meetings, Reads, Fresh, Refusals, Idle, Ops
<1>6. HandedOver
  BY DEF HandedOver, Tokens
<1>8. Unheard
  BY <1>1 DEF Unheard, Idle, Callers
<1> QED
  BY <1>2, <1>3, <1>4, <1>5, <1>6, <1>7, <1>8 DEF IInv

-------------------------------------------------------------------------------
(* A request leaves with the cookie.                                        *)

LEMMA SendStep ==
    ASSUME IInv, NEW b \in Callers, NEW o \in Ops, ~Out(b, o),
           call' = Sent(b, o), met' = Overlap(b, o),
           UNCHANGED <<tokenVars, cookie, lost, loggedOut>>,
           page' \in [Tabs -> Pages], waiting' \subseteq Tabs
    PROVE  IInv'
<1> DEFINE v == [stage |-> "sent", token |-> cookie, new |-> NoToken]
<1>1. issued' = issued /\ revoked' = revoked /\ expired' = expired /\ parent' = parent
  BY DEF tokenVars
<1>2. /\ call' \in [Callers -> [Ops -> Calls(issued)]]
      /\ call'[b][o] = v
      /\ \A c \in Callers, p \in Ops : <<c, p>> # <<b, o>> => call'[c][p] = call[c][p]
  <2>1. call \in [Callers -> [Ops -> Calls(issued)]]
    BY DEF IInv, TypeOK, Calls
  <2>2. v \in Calls(issued)
    BY DEF IInv, TypeOK, TokensTypeOK, Calls, NoToken
  <2> QED
    BY <2>1, <2>2, CallWrite DEF Sent
<1>3. call[b][o] = Idle
  BY DEF IInv, Stages, Out
<1>4. /\ v.stage = "sent" /\ v.token = cookie /\ v.new = NoToken
      /\ Idle.stage = "idle" /\ Idle.token = NoToken /\ Idle.new = NoToken
  BY DEF Idle
<1> HIDE DEF v
\* The exchanges other than this one are as they were.
<1>5. \A c \in Callers : \/ call'[c]["refresh"] = call[c]["refresh"]
                      \/ /\ call'[c]["refresh"].stage = "sent"
                         /\ call'[c]["refresh"].new = NoToken
                         /\ call[c]["refresh"].new = NoToken
  BY <1>2, <1>3, <1>4 DEF Ops
<1>6. \A c \in Callers, p \in Ops :
        \/ call'[c][p] = call[c][p]
        \/ call'[c][p].token = cookie
  BY <1>2, <1>4
<1>7. met \subseteq met' /\ met' \subseteq met \cup ({cookie} \ {NoToken})
  BY DEF Overlap
<1>8. TypeOK'
  <2>1. cookie \in 0..issued /\ issued \in Nat /\ met \subseteq Tokens
    BY ParentIsOlder DEF IInv, TypeOK
  <2>2. met' \subseteq Tokens
    <3>1. cookie # NoToken => cookie \in Tokens
      BY <2>1 DEF Tokens, NoToken
    <3> QED
      BY <1>7, <2>1, <3>1
  <2>3. TokensTypeOK' /\ Tokens' = Tokens
    BY <1>1 DEF IInv, TypeOK, TokensTypeOK, Tokens
  <2> QED
    BY <1>1, <1>2, <2>1, <2>2, <2>3 DEF IInv, TypeOK, Calls
<1>9. Stages'
  BY <1>1, <1>2, <1>4 DEF IInv, Stages, Tokens
<1>10. Revocations'
  BY <1>1 DEF IInv, Revocations, Tokens
<1>11. Meetings'
  <2>1. ASSUME NEW c \in Callers, NEW p \in Ops, <<c, p>> # <<b, o>>,
               call[c][p].token = cookie, cookie # NoToken
        PROVE  cookie \in met'
    <3>1. Out(c, p)
      BY <1>4, <2>1 DEF IInv, Stages, Out
    <3> QED
      BY <2>1, <3>1 DEF Overlap
  <2>2. SUFFICES ASSUME NEW c \in Callers, NEW d \in Callers, NEW p \in Ops, NEW q \in Ops,
                        <<c, p>> # <<d, q>>,
                        call'[c][p].token = call'[d][q].token,
                        call'[c][p].token # NoToken
                 PROVE  call'[c][p].token \in met'
    BY DEF Meetings
  <2>3. CASE <<c, p>> = <<b, o>>
    BY <1>2, <1>4, <2>1, <2>2, <2>3
  <2>4. CASE <<d, q>> = <<b, o>>
    BY <1>2, <1>4, <2>1, <2>2, <2>4
  <2>5. CASE <<c, p>> # <<b, o>> /\ <<d, q>> # <<b, o>>
    <3>1. call'[c][p] = call[c][p] /\ call'[d][q] = call[d][q]
      BY <1>2, <2>5
    <3>2. call[c][p].token \in met
      BY <2>2, <3>1 DEF IInv, Meetings
    <3> QED
      BY <1>7, <3>1, <3>2
  <2> QED
    BY <2>3, <2>4, <2>5
<1>12. Reads'
  BY <1>1, <1>5, <1>7 DEF IInv, Reads
<1>13. Fresh'
  BY <1>1, <1>5, <1>6 DEF IInv, Fresh, Tokens
<1>14. HandedOver'
  <2> SUFFICES ASSUME NEW s \in Tokens, parent[s] # NoToken,
                      parent[s] \notin met' \cup lost
               PROVE  \/ \E c \in Callers : call'[c]["refresh"].new = s
                      \/ /\ cookie # parent[s]
                         /\ \A c \in Callers, p \in Ops : call'[c][p].token # parent[s]
    BY <1>1 DEF HandedOver, Tokens
  <2>1. s # NoToken
    BY DEF IInv, TypeOK, TokensTypeOK, Tokens, NoToken
  <2> QED
    BY <1>5, <1>6, <1>7, <2>1 DEF IInv, HandedOver
<1>15. OneSuccessor' /\ LogoutIsFinal'
  BY <1>1, <1>7 DEF IInv, OneSuccessor, LogoutIsFinal, Tokens, Usable, Successors
<1>16. NoCookie'
  <2>1. \A c \in Callers, p \in Ops :
          call'[c][p].stage # "idle" /\ call'[c][p].token = NoToken => loggedOut # {}
    BY <1>2, <1>4 DEF IInv, NoCookie, Out
  <2>2. \A c \in Callers : call'[c]["logout"].stage = "answered" => loggedOut # {}
    BY <1>2, <1>4 DEF IInv, NoCookie, Ops
  <2> QED
    BY <2>1, <2>2 DEF IInv, NoCookie, Out
<1>17. Refusals'
  BY <1>1, <1>5, <1>7 DEF IInv, Refusals, Excused
<1>18. Unheard'
  BY <1>2, <1>4 DEF IInv, Unheard, Callers
<1> QED
  BY <1>8, <1>9, <1>10, <1>11, <1>12, <1>13, <1>14, <1>15, <1>16, <1>17, <1>18 DEF IInv

-------------------------------------------------------------------------------
(* A request is over: its answer is stored, or is not.                      *)

LEMMA SettleStep ==
    ASSUME IInv, NEW b \in Callers, NEW o \in Ops,
           call' = Settle(b, o),
           UNCHANGED <<tokenVars, met, loggedOut>>,
           page' \in [Tabs -> Pages], waiting' \subseteq Tabs,
           \/ cookie' = cookie
           \/ cookie' = NoToken /\ loggedOut # {}
           \/ cookie' = call[b][o].new /\ call[b][o].new # NoToken,
           lost \subseteq lost', lost' \subseteq Tokens,
           \/ call[b][o].new = NoToken
           \/ cookie' = call[b][o].new
           \/ call[b][o].token \in lost'
    PROVE  IInv'
<1>1. issued' = issued /\ revoked' = revoked /\ expired' = expired /\ parent' = parent
  BY DEF tokenVars
<1>2. /\ Idle.stage = "idle" /\ Idle.token = NoToken /\ Idle.new = NoToken
      /\ Idle \in Calls(issued)
  BY DEF Idle, IInv, TypeOK, TokensTypeOK, Calls, NoToken
<1>3. /\ call' \in [Callers -> [Ops -> Calls(issued)]]
      /\ call'[b][o] = Idle
      /\ \A c \in Callers, p \in Ops : <<c, p>> # <<b, o>> => call'[c][p] = call[c][p]
  <2>1. call \in [Callers -> [Ops -> Calls(issued)]]
    BY DEF IInv, TypeOK, Calls
  <2> QED
    BY <1>2, <2>1, CallWrite DEF Settle
<1>4. \A c \in Callers, p \in Ops : call'[c][p] = call[c][p] \/ call'[c][p] = Idle
  BY <1>3
<1>5. \A c \in Callers : \/ call'[c]["refresh"] = call[c]["refresh"]
                      \/ call'[c]["refresh"] = Idle
  BY <1>4 DEF Ops
<1>6. TypeOK'
  <2>1. cookie' \in 0..issued
    BY DEF IInv, TypeOK, TokensTypeOK, NoToken
  <2> QED
    BY <1>1, <1>3, <2>1 DEF IInv, TypeOK, TokensTypeOK, Tokens, Calls
<1>7. Stages'
  BY <1>1, <1>2, <1>4 DEF IInv, Stages, Tokens
<1>8. Revocations'
  BY <1>1 DEF IInv, Revocations, Tokens
<1>9. Meetings'
  <2> SUFFICES ASSUME NEW c \in Callers, NEW d \in Callers, NEW p \in Ops, NEW q \in Ops,
                      <<c, p>> # <<d, q>>,
                      call'[c][p].token = call'[d][q].token,
                      call'[c][p].token # NoToken
               PROVE  call'[c][p].token \in met
    BY DEF Meetings
  <2>1. call'[c][p] = call[c][p] /\ call'[d][q] = call[d][q]
    BY <1>2, <1>4
  <2> QED
    BY <2>1 DEF IInv, Meetings
<1>10. Reads'
  BY <1>1, <1>2, <1>5 DEF IInv, Reads
<1>11. Fresh'
  <2> SUFFICES ASSUME NEW c \in Callers, call'[c]["refresh"].new # NoToken
               PROVE  LET n == call'[c]["refresh"].new
                      IN  /\ cookie' # n
                          /\ \A s \in Tokens : parent[s] # n
                          /\ \A d \in Callers, p \in Ops : call'[d][p].token # n
                          /\ \A d \in Callers : call'[d]["refresh"].new = n => d = c
    BY <1>1 DEF Fresh, Tokens
  <2> DEFINE n == call[c]["refresh"].new
  <2>1. call'[c]["refresh"] = call[c]["refresh"] /\ <<c, "refresh">> # <<b, o>>
    BY <1>2, <1>3, <1>5
  <2>2. /\ n # NoToken /\ cookie # n
        /\ \A s \in Tokens : parent[s] # n
        /\ \A d \in Callers, p \in Ops : call[d][p].token # n
        /\ \A d \in Callers : call[d]["refresh"].new = n => d = c
    BY <2>1 DEF IInv, Fresh
  <2>3. call[b][o].new # n
    <3>1. CASE o = "refresh"
      BY <2>1, <2>2, <3>1
    <3>2. CASE o = "logout"
      BY <2>2, <3>2 DEF IInv, Stages
    <3> QED
      BY <3>1, <3>2 DEF Ops
  <2>4. cookie' # n
    BY <2>2, <2>3
  <2>5. \A d \in Callers, p \in Ops : call'[d][p].token # n
    BY <1>2, <1>4, <2>2
  <2>6. \A d \in Callers : call'[d]["refresh"].new = n => d = c
    BY <1>2, <1>5, <2>2
  <2> QED
    BY <2>1, <2>2, <2>4, <2>5, <2>6
<1>12. HandedOver'
  <2> SUFFICES ASSUME NEW s \in Tokens, parent[s] # NoToken,
                      parent[s] \notin met \cup lost'
               PROVE  \/ \E c \in Callers : call'[c]["refresh"].new = s
                      \/ /\ cookie' # parent[s]
                         /\ \A c \in Callers, p \in Ops : call'[c][p].token # parent[s]
    BY <1>1 DEF HandedOver, Tokens
  <2>1. s # NoToken /\ parent[s] # s
    BY ParentIsOlder DEF IInv
  <2>2. CASE \E c \in Callers : call[c]["refresh"].new = s
    <3>1. PICK c \in Callers : call[c]["refresh"].new = s
      BY <2>2
    <3>2. CASE <<c, "refresh">> # <<b, o>>
      BY <1>3, <3>1, <3>2 DEF Ops
    <3>3. CASE <<c, "refresh">> = <<b, o>>
      <4>1. call[b][o].new = s /\ call[b][o].token = parent[s]
        BY <2>1, <3>1, <3>3 DEF IInv, Stages
      <4>2. cookie' = s
        BY <2>1, <4>1
      <4>3. ASSUME NEW d \in Callers, NEW p \in Ops PROVE call'[d][p].token # parent[s]
        <5>1. CASE <<d, p>> = <<b, o>>
          BY <1>2, <1>3, <5>1
        <5>2. CASE <<d, p>> # <<b, o>>
          BY <1>3, <4>1, <5>2 DEF IInv, Meetings
        <5> QED
          BY <5>1, <5>2
      <4> QED
        BY <2>1, <4>2, <4>3
    <3> QED
      BY <3>2, <3>3
  <2>3. CASE /\ cookie # parent[s]
             /\ \A c \in Callers, p \in Ops : call[c][p].token # parent[s]
    <3>1. call[b][o].new = NoToken \/ call[b][o].new # parent[s]
      BY DEF IInv, Fresh, Stages, Ops
    <3>2. cookie' # parent[s]
      BY <2>3, <3>1
    <3>3. \A c \in Callers, p \in Ops : call'[c][p].token # parent[s]
      BY <1>2, <1>4, <2>3
    <3> QED
      BY <3>2, <3>3
  <2>4. parent[s] \notin met \cup lost
    OBVIOUS
  <2> QED
    BY <2>2, <2>3, <2>4 DEF IInv, HandedOver
<1>13. OneSuccessor' /\ LogoutIsFinal'
  BY <1>1 DEF IInv, OneSuccessor, LogoutIsFinal, Tokens, Usable, Successors
<1>14. NoCookie'
  BY <1>2, <1>4 DEF IInv, NoCookie, Out, Ops
<1>15. Refusals'
  BY <1>1, <1>2, <1>5 DEF IInv, Refusals, Excused
<1>16. Unheard'
  BY <1>2, <1>4 DEF IInv, Unheard, Callers
<1> QED
  BY <1>6, <1>7, <1>8, <1>9, <1>10, <1>11, <1>12, <1>13, <1>14, <1>15, <1>16 DEF IInv

-------------------------------------------------------------------------------
(* A client gives requests up: they change hands or end.                    *)

\* Requests change hands or end: from[c][p] is who had what c has now.  Nothing
\* is doubled, and a successor on its way stays where it is or is lost.
Moves(from) ==
    /\ \A c \in Callers, p \in Ops : call'[c][p] \in {Idle, call[from[c][p]][p]}
    /\ \A c, d \in Callers, p \in Ops :
          /\ call'[c][p] # Idle /\ call'[d][p] # Idle
          /\ from[c][p] = from[d][p]
          => c = d
    /\ \A c \in Callers, p \in Ops :
          call'[c][p].new # NoToken => call'[c][p] = call[c][p]
    /\ \A c \in Callers, p \in Ops :
          call[c][p].new # NoToken =>
             call'[c][p] = call[c][p] \/ call[c][p].token \in lost'

LEMMA MoveStep ==
    ASSUME IInv, call' \in [Callers -> [Ops -> Calls(issued)]],
           NEW from \in [Callers -> [Ops -> Callers]], Moves(from), Unheard',
           lost \subseteq lost', lost' \subseteq Tokens,
           UNCHANGED <<tokenVars, cookie, met, loggedOut>>,
           page' \in [Tabs -> Pages], waiting' \subseteq Tabs
    PROVE  IInv'
<1>1. /\ issued' = issued /\ revoked' = revoked /\ expired' = expired /\ parent' = parent
      /\ cookie' = cookie /\ met' = met /\ loggedOut' = loggedOut
  BY DEF tokenVars
<1>2. /\ Idle.stage = "idle" /\ Idle.token = NoToken /\ Idle.new = NoToken
      /\ "refresh" \in Ops /\ "logout" \in Ops
  BY DEF Idle, Ops
<1>3. \A c \in Callers, p \in Ops :
         /\ from[c][p] \in Callers
         /\ call'[c][p] = Idle \/ call'[c][p] = call[from[c][p]][p]
  BY DEF Moves
<1>4. \A c \in Callers, p \in Ops :
          call'[c][p] = Idle \/ \E d \in Callers : call'[c][p] = call[d][p]
  BY <1>3
<1>5. TypeOK'
  BY <1>1 DEF IInv, TypeOK, TokensTypeOK, Tokens, Calls
<1>6. Stages'
  <2> SUFFICES ASSUME NEW c \in Callers, NEW p \in Ops
               PROVE  /\ call'[c][p].stage = "idle" => call'[c][p] = Idle
                      /\ call'[c][p].stage # "answered" => call'[c][p].new = NoToken
                      /\ call'[c][p].stage = "read" => call'[c][p].token \in Tokens
                      /\ p = "logout" => call'[c][p].stage # "read" /\ call'[c][p].new = NoToken
                      /\ call'[c][p].new # NoToken =>
                            call'[c][p].token \in Tokens /\ parent[call'[c][p].new] = call'[c][p].token
    BY <1>1 DEF Stages, Tokens
  <2>1. CASE call'[c][p] = Idle
    BY <1>2, <2>1
  <2>2. CASE call'[c][p] = call[from[c][p]][p]
    BY <1>3, <2>2 DEF IInv, Stages
  <2> QED
    BY <1>3, <2>1, <2>2
<1>7. Revocations' /\ OneSuccessor'
  BY <1>1 DEF IInv, Revocations, OneSuccessor, Tokens
<1>8. Meetings'
  <2> SUFFICES ASSUME NEW c \in Callers, NEW d \in Callers, NEW p \in Ops, NEW q \in Ops,
                      <<c, p>> # <<d, q>>,
                      call'[c][p].token = call'[d][q].token,
                      call'[c][p].token # NoToken
               PROVE  call'[c][p].token \in met
    BY <1>1 DEF Meetings
  <2>1. call'[c][p] # Idle /\ call'[d][q] # Idle
    BY <1>2
  <2>2. /\ from[c][p] \in Callers /\ call'[c][p] = call[from[c][p]][p]
        /\ from[d][q] \in Callers /\ call'[d][q] = call[from[d][q]][q]
    BY <1>3, <2>1
  <2>3. <<from[c][p], p>> # <<from[d][q], q>>
    BY <2>1 DEF Moves
  <2>4. PICK x \in Callers, y \in Callers :
           /\ <<x, p>> # <<y, q>>
           /\ call'[c][p] = call[x][p] /\ call'[d][q] = call[y][q]
    BY <2>2, <2>3
  <2>5. call[x][p].token = call[y][q].token /\ call[x][p].token # NoToken
    BY <2>4
  <2>6. call[x][p].token \in met
    BY <2>4, <2>5 DEF IInv, Meetings
  <2> QED
    BY <2>4, <2>6
<1>9. Reads'
  <2> SUFFICES ASSUME NEW c \in Callers, call'[c]["refresh"].stage = "read",
                      call'[c]["refresh"].token \in revoked
               PROVE  call'[c]["refresh"].token \in met
    BY <1>1 DEF Reads
  <2> QED
    BY <1>2, <1>4 DEF IInv, Reads
<1>10. Fresh'
  <2> SUFFICES ASSUME NEW c \in Callers, call'[c]["refresh"].new # NoToken
               PROVE  LET n == call'[c]["refresh"].new
                      IN  /\ cookie # n
                          /\ \A s \in Tokens : parent[s] # n
                          /\ \A d \in Callers, p \in Ops : call'[d][p].token # n
                          /\ \A d \in Callers : call'[d]["refresh"].new = n => d = c
    BY <1>1 DEF Fresh, Tokens
  <2> DEFINE n == call[c]["refresh"].new
  <2>1. call'[c]["refresh"].new = n /\ n # NoToken
    BY <1>2 DEF Moves
  <2>2. /\ cookie # n
        /\ \A s \in Tokens : parent[s] # n
        /\ \A d \in Callers, p \in Ops : call[d][p].token # n
        /\ \A d \in Callers : call[d]["refresh"].new = n => d = c
    BY <2>1 DEF IInv, Fresh
  <2> HIDE DEF n
  <2>3. ASSUME NEW d \in Callers, NEW p \in Ops PROVE call'[d][p].token # n
    <3>1. CASE call'[d][p] = Idle
      BY <1>2, <2>1, <3>1
    <3>2. CASE \E x \in Callers : call'[d][p] = call[x][p]
      BY <2>2, <3>2
    <3> QED
      BY <1>4, <3>1, <3>2
  <2>4. \A d \in Callers : call'[d]["refresh"].new = n => d = c
    BY <1>2, <2>1, <2>2 DEF Moves
  <2> QED
    BY <2>1, <2>2, <2>3, <2>4
<1>11. HandedOver'
  <2> SUFFICES ASSUME NEW s \in Tokens, parent[s] # NoToken,
                      parent[s] \notin met \cup lost'
               PROVE  \/ \E c \in Callers : call'[c]["refresh"].new = s
                      \/ /\ cookie # parent[s]
                         /\ \A c \in Callers, p \in Ops : call'[c][p].token # parent[s]
    BY <1>1 DEF HandedOver, Tokens
  <2>1. CASE \E c \in Callers : call[c]["refresh"].new = s
    <3>1. PICK c \in Callers : call[c]["refresh"].new = s
      BY <2>1
    <3>2. s # NoToken
      BY ParentIsOlder DEF IInv
    <3>3. call[c]["refresh"].token = parent[s]
      BY <1>2, <3>1, <3>2 DEF IInv, Stages
    <3>4. call'[c]["refresh"] = call[c]["refresh"]
      BY <1>2, <3>1, <3>2, <3>3 DEF Moves
    <3> QED
      BY <3>1, <3>4
  <2>2. CASE /\ cookie # parent[s]
             /\ \A c \in Callers, p \in Ops : call[c][p].token # parent[s]
    <3>1. ASSUME NEW c \in Callers, NEW p \in Ops PROVE call'[c][p].token # parent[s]
      <4>1. CASE call'[c][p] = Idle
        BY <1>2, <4>1
      <4>2. CASE \E x \in Callers : call'[c][p] = call[x][p]
        BY <2>2, <4>2
      <4> QED
        BY <1>4, <4>1, <4>2
    <3> QED
      BY <2>2, <3>1
  <2> QED
    BY <2>1, <2>2 DEF IInv, HandedOver
<1>12. LogoutIsFinal'
  BY <1>1 DEF IInv, LogoutIsFinal, Tokens, Usable, Successors
<1>13. NoCookie'
  <2>1. ASSUME NEW c \in Callers, NEW p \in Ops,
               call'[c][p].stage # "idle", call'[c][p].token = NoToken
        PROVE  loggedOut # {}
    <3>1. PICK x \in Callers : call'[c][p] = call[x][p]
      BY <1>2, <1>4, <2>1
    <3> QED
      BY <2>1, <3>1 DEF IInv, NoCookie, Out
  <2>2. ASSUME NEW c \in Callers, call'[c]["logout"].stage = "answered"
        PROVE  loggedOut # {}
    <3>1. PICK x \in Callers : call'[c]["logout"] = call[x]["logout"]
      BY <1>2, <1>4, <2>2
    <3> QED
      BY <2>2, <3>1 DEF IInv, NoCookie
  <2> QED
    BY <1>1, <2>1, <2>2 DEF IInv, NoCookie, Out
<1>14. Refusals'
  <2> SUFFICES ASSUME NEW c \in Callers, call'[c]["refresh"].stage = "answered",
                      call'[c]["refresh"].new = NoToken
               PROVE  Excused(call'[c]["refresh"].token)
    BY <1>1 DEF Refusals, Excused
  <2>1. PICK x \in Callers : call'[c]["refresh"] = call[x]["refresh"]
    BY <1>2, <1>4
  <2> QED
    BY <2>1 DEF IInv, Refusals
<1> QED
  BY <1>5, <1>6, <1>7, <1>8, <1>9, <1>10, <1>11, <1>12, <1>13, <1>14 DEF IInv

\* What giving requests up does to all of them.
LEMMA GiveUpWrite ==
    ASSUME IInv, NEW b \in Tabs, NEW ops \in SUBSET Ops, GiveUp(b, ops)
    PROVE  /\ call' \in [Callers -> [Ops -> Calls(issued)]]
           /\ \A o \in ops : call'[b][o] = Idle
           /\ \/ \A c \in Callers, o \in Ops :
                    call'[c][o] = IF c = b /\ o \in ops THEN Idle ELSE call[c][o]
              \/ \E a \in Callers :
                    /\ a # b
                    /\ \A o \in Ops : call[a][o] = Idle
                    /\ \A c \in Callers, o \in Ops :
                          call'[c][o] = IF c = b /\ o \in ops THEN Idle
                                        ELSE IF c = a
                                        THEN IF o \in ops /\ call[b][o].stage \in {"sent", "read"}
                                             THEN call[b][o] ELSE Idle
                                        ELSE call[c][o]
<1>1. /\ call \in [Callers -> [Ops -> Calls(issued)]]
      /\ Idle \in Calls(issued) /\ b \in Callers
  BY DEF IInv, TypeOK, TokensTypeOK, Calls, Idle, NoToken, Callers
<1> DEFINE on == {o \in ops : call[b][o].stage \in {"sent", "read"}}
<1>2. CASE call' = [call EXCEPT ![b] = [o \in Ops |-> IF o \in ops THEN Idle ELSE @[o]]]
  BY <1>1, <1>2
<1>3. CASE \E a \in Adrift :
              /\ \A o \in Ops : ~Out(a, o)
              /\ call' = [call EXCEPT
                     ![a] = [o \in Ops |-> IF o \in on THEN call[b][o] ELSE Idle],
                     ![b] = [o \in Ops |-> IF o \in ops THEN Idle ELSE @[o]]]
  <2>1. PICK a \in Adrift :
              /\ \A o \in Ops : ~Out(a, o)
              /\ call' = [call EXCEPT
                     ![a] = [o \in Ops |-> IF o \in on THEN call[b][o] ELSE Idle],
                     ![b] = [o \in Ops |-> IF o \in ops THEN Idle ELSE @[o]]]
    BY <1>3
  <2>2. a \in Callers /\ a # b
    BY AdriftAssumption DEF Callers
  <2>3. \A o \in Ops : call[a][o] = Idle
    BY <2>1, <2>2 DEF Out, IInv, Stages
  <2>4. /\ call' \in [Callers -> [Ops -> Calls(issued)]]
        /\ \A c \in Callers, o \in Ops :
              call'[c][o] = IF c = b THEN (IF o \in ops THEN Idle ELSE call[b][o])
                            ELSE IF c = a THEN (IF o \in on THEN call[b][o] ELSE Idle)
                            ELSE call[c][o]
    BY <1>1, <2>1, <2>2
  <2> QED
    BY <1>1, <2>2, <2>3, <2>4
<1> QED
  BY <1>2, <1>3 DEF GiveUp

LEMMA GiveUpStep ==
    ASSUME IInv, NEW b \in Tabs, NEW ops \in SUBSET Ops, GiveUp(b, ops),
           UNCHANGED <<tokenVars, cookie, met, loggedOut>>,
           page' \in [Tabs -> Pages], waiting' \subseteq Tabs
    PROVE  IInv'
<1>1. b \in Callers /\ call' \in [Callers -> [Ops -> Calls(issued)]]
  BY GiveUpWrite DEF Callers
<1>2. /\ lost' = lost \cup {call[b][o].token : o \in {p \in ops : call[b][p].new # NoToken}}
      /\ lost \subseteq lost'
      /\ \A o \in ops : call[b][o].new # NoToken => call[b][o].token \in lost'
  BY DEF GiveUp
<1>3. lost' \subseteq Tokens
  BY <1>1, <1>2 DEF IInv, TypeOK, Stages
<1>4. Idle.new = NoToken /\ Idle.stage = "idle"
  BY DEF Idle
<1>5. CASE \A c \in Callers, o \in Ops :
              call'[c][o] = IF c = b /\ o \in ops THEN Idle ELSE call[c][o]
  <2> DEFINE from == [c \in Callers |-> [o \in Ops |-> c]]
  <2>1. /\ from \in [Callers -> [Ops -> Callers]]
        /\ \A c \in Callers, o \in Ops : from[c][o] = c
    OBVIOUS
  <2> HIDE DEF from
  <2>2. /\ \A c \in Callers, o \in Ops : call'[c][o] \in {Idle, call[from[c][o]][o]}
        /\ \A c, d \in Callers, o \in Ops :
              /\ call'[c][o] # Idle /\ call'[d][o] # Idle
              /\ from[c][o] = from[d][o]
              => c = d
    BY <1>5, <2>1
  <2>3. /\ \A c \in Callers, o \in Ops :
              call'[c][o].new # NoToken => call'[c][o] = call[c][o]
        /\ \A c \in Callers, o \in Ops :
              call[c][o].new # NoToken =>
                 call'[c][o] = call[c][o] \/ call[c][o].token \in lost'
    BY <1>2, <1>4, <1>5
  <2>4. Moves(from)
    BY <2>2, <2>3 DEF Moves
  <2>5. Unheard'
    BY <1>4, <1>5 DEF IInv, Unheard, Callers
  <2> QED
    BY <1>1, <1>2, <1>3, <2>1, <2>4, <2>5, MoveStep
<1>6. CASE \E a \in Callers :
              /\ a # b
              /\ \A o \in Ops : call[a][o] = Idle
              /\ \A c \in Callers, o \in Ops :
                    call'[c][o] = IF c = b /\ o \in ops THEN Idle
                                  ELSE IF c = a
                                  THEN IF o \in ops /\ call[b][o].stage \in {"sent", "read"}
                                       THEN call[b][o] ELSE Idle
                                  ELSE call[c][o]
  <2>1. PICK a \in Callers :
              /\ a # b
              /\ \A o \in Ops : call[a][o] = Idle
              /\ \A c \in Callers, o \in Ops :
                    call'[c][o] = IF c = b /\ o \in ops THEN Idle
                                  ELSE IF c = a
                                  THEN IF o \in ops /\ call[b][o].stage \in {"sent", "read"}
                                       THEN call[b][o] ELSE Idle
                                  ELSE call[c][o]
    BY <1>6
  <2> DEFINE from == [c \in Callers |-> [o \in Ops |-> IF c = a /\ o \in ops THEN b ELSE c]]
  <2>2. /\ from \in [Callers -> [Ops -> Callers]]
        /\ \A c \in Callers, o \in Ops : from[c][o] = IF c = a /\ o \in ops THEN b ELSE c
    BY <1>1
  <2> HIDE DEF from
  <2>3. ASSUME NEW c \in Callers, NEW o \in Ops
        PROVE  call'[c][o] \in {Idle, call[from[c][o]][o]}
    <3>1. CASE c = a /\ o \in ops
      BY <2>1, <2>2, <3>1
    <3>2. CASE ~(c = a /\ o \in ops)
      BY <2>1, <2>2, <3>2
    <3> QED
      BY <3>1, <3>2
  <2>4. ASSUME NEW c \in Callers, NEW d \in Callers, NEW o \in Ops,
               call'[c][o] # Idle, call'[d][o] # Idle, from[c][o] = from[d][o]
        PROVE  c = d
    <3>1. o \in ops => c # b /\ d # b
      BY <2>1, <2>4
    <3>2. CASE o \in ops
      BY <2>2, <2>4, <3>1, <3>2
    <3>3. CASE o \notin ops
      BY <2>2, <2>4, <3>3
    <3> QED
      BY <3>2, <3>3
  <2>5. \A o \in Ops : call[b][o].stage \in {"sent", "read"} => call[b][o].new = NoToken
    BY <1>1 DEF IInv, Stages
  <2>6. /\ \A c \in Callers, o \in Ops :
              call'[c][o].new # NoToken => call'[c][o] = call[c][o]
        /\ \A c \in Callers, o \in Ops :
              call[c][o].new # NoToken =>
                 call'[c][o] = call[c][o] \/ call[c][o].token \in lost'
    BY <1>2, <1>4, <2>1, <2>5
  <2>7. Moves(from)
    BY <2>3, <2>4, <2>6 DEF Moves
  <2>8. Unheard'
    BY <1>4, <2>1 DEF IInv, Unheard, Callers
  <2> QED
    BY <1>1, <1>2, <1>3, <2>2, <2>7, <2>8, MoveStep
<1> QED
  BY <1>5, <1>6, GiveUpWrite

-------------------------------------------------------------------------------
(* The server looks a token up.                                             *)

\* What a step at the server leaves of the requests: their tokens, and all of
\* the other requests.
LEMMA ReadWrite ==
    ASSUME TypeOK, NEW b \in Callers,
           call' = [call EXCEPT ![b]["refresh"].stage = "read"]
    PROVE  /\ call' \in [Callers -> [Ops -> Calls(issued)]]
           /\ call'[b]["refresh"].token = call[b]["refresh"].token
           /\ call'[b]["refresh"].new = call[b]["refresh"].new
           /\ call'[b]["refresh"].stage = "read"
           /\ \A c \in Callers, p \in Ops :
                 <<c, p>> # <<b, "refresh">> => call'[c][p] = call[c][p]
<1> DEFINE v == [call[b]["refresh"] EXCEPT !.stage = "read"]
<1>1. call \in [Callers -> [Ops -> Calls(issued)]] /\ "refresh" \in Ops
  BY DEF TypeOK, Calls, Ops
<1>2. call[b]["refresh"] \in Calls(issued)
  BY <1>1
<1>3. /\ v \in Calls(issued) /\ v.stage = "read"
      /\ v.token = call[b]["refresh"].token /\ v.new = call[b]["refresh"].new
  BY <1>2 DEF Calls
<1>4. call' = [call EXCEPT ![b]["refresh"] = v]
  OBVIOUS
<1> HIDE DEF v
<1> QED
  BY <1>1, <1>3, <1>4, CallWrite

LEMMA AnswerWrite ==
    ASSUME NEW m \in Nat, call \in [Callers -> [Ops -> Calls(m)]],
           NEW b \in Callers, NEW o \in Ops, NEW n \in 0..m,
           Answer(b, o, n)
    PROVE  /\ call' \in [Callers -> [Ops -> Calls(m)]]
           /\ \A c \in Callers, p \in Ops : <<c, p>> # <<b, o>> => call'[c][p] = call[c][p]
           /\ \/ /\ call'[b][o].token = call[b][o].token
                 /\ call'[b][o].new = n
                 /\ call'[b][o].stage = "answered"
                 /\ b \notin Adrift /\ lost' = lost
              \/ /\ call' = Settle(b, o) /\ call'[b][o] = Idle
                 /\ lost' = IF n # NoToken THEN lost \cup {call[b][o].token} ELSE lost
<1>1. call[b][o] \in Calls(m)
  OBVIOUS
<1>2. CASE /\ b \in Tabs /\ lost' = lost
           /\ call' = [call EXCEPT ![b][o].stage = "answered", ![b][o].new = n]
  <2> DEFINE v == [[call[b][o] EXCEPT !.stage = "answered"] EXCEPT !.new = n]
  <2>1. /\ v \in Calls(m) /\ v.stage = "answered"
        /\ v.token = call[b][o].token /\ v.new = n
    BY <1>1 DEF Calls
  <2>2. call' = [call EXCEPT ![b][o] = v]
    BY <1>2
  <2> HIDE DEF v
  <2>3. /\ call' \in [Callers -> [Ops -> Calls(m)]]
        /\ call'[b][o] = v
        /\ \A c \in Callers, p \in Ops : <<c, p>> # <<b, o>> => call'[c][p] = call[c][p]
    BY <2>1, <2>2, CallWrite
  <2> QED
    BY <1>2, <2>1, <2>3, AdriftAssumption
<1>3. CASE /\ call' = Settle(b, o)
           /\ lost' = IF n # NoToken THEN lost \cup {call[b][o].token} ELSE lost
  <2>1. Idle \in Calls(m)
    BY DEF Idle, Calls, NoToken
  <2> QED
    BY <1>3, <2>1, CallWrite DEF Settle
<1> QED
  BY <1>2, <1>3 DEF Answer

LEMMA ReadRefreshStep ==
    ASSUME IInv, NEW b \in Callers, ReadRefresh(b) PROVE IInv'
<1> DEFINE t == call[b]["refresh"].token
<1>1. /\ issued' = issued /\ revoked' = revoked /\ expired' = expired /\ parent' = parent
      /\ cookie' = cookie /\ page' = page /\ waiting' = waiting
      /\ met' = met /\ lost' = lost /\ loggedOut' = loggedOut
      /\ call[b]["refresh"].stage = "sent"
      /\ call[b]["refresh"].new = NoToken
  BY DEF ReadRefresh, Answer, tokenVars, IInv, Stages, Ops
\* A refusal that reaches nobody only ends the request.
<1> SUFFICES ASSUME call' # Settle(b, "refresh") PROVE IInv'
  <2>1. CASE call' = Settle(b, "refresh")
    <3>1. /\ "refresh" \in Ops /\ lost \subseteq Tokens
          /\ page' \in [Tabs -> Pages] /\ waiting' \subseteq Tabs
      BY <1>1 DEF IInv, TypeOK, Ops
    <3> QED
      BY <1>1, <2>1, <3>1, SettleStep DEF tokenVars
  <2> QED
    BY <2>1
<1>2. /\ call' \in [Callers -> [Ops -> Calls(issued)]]
      /\ call'[b]["refresh"].token = t
      /\ call'[b]["refresh"].new = NoToken
      /\ \A c \in Callers, p \in Ops :
            <<c, p>> # <<b, "refresh">> => call'[c][p] = call[c][p]
      /\ \/ call'[b]["refresh"].stage = "read" /\ Usable(t)
         \/ call'[b]["refresh"].stage = "answered" /\ ~Usable(t) /\ b \notin Adrift
  <2>1. CASE Usable(t)
    BY <1>1, <2>1, ReadWrite DEF ReadRefresh, IInv
  <2>2. CASE ~Usable(t)
    <3>1. /\ issued \in Nat /\ NoToken \in 0..issued /\ "refresh" \in Ops
          /\ call \in [Callers -> [Ops -> Calls(issued)]]
      BY ParentIsOlder DEF IInv, TypeOK, Calls, NoToken, Ops
    <3>2. Answer(b, "refresh", NoToken)
      BY <2>2 DEF ReadRefresh
    <3> QED
      BY <2>2, <3>1, <3>2, AnswerWrite
  <2> QED
    BY <2>1, <2>2
<1> HIDE DEF t
<1>3. \A c \in Callers, p \in Ops :
        call'[c][p].token = call[c][p].token /\ call'[c][p].new = call[c][p].new
  BY <1>1, <1>2 DEF t
<1>4. "refresh" \in Ops /\ "logout" \in Ops
  BY DEF Ops
<1>5. TypeOK'
  BY <1>1, <1>2 DEF IInv, TypeOK, TokensTypeOK, Tokens, Calls
<1>6. Stages'
  <2> SUFFICES ASSUME NEW c \in Callers, NEW p \in Ops
               PROVE  /\ call'[c][p].stage = "idle" => call'[c][p] = Idle
                      /\ call'[c][p].stage # "answered" => call'[c][p].new = NoToken
                      /\ call'[c][p].stage = "read" => call'[c][p].token \in Tokens
                      /\ p = "logout" => call'[c][p].stage # "read" /\ call'[c][p].new = NoToken
                      /\ call'[c][p].new # NoToken =>
                            call'[c][p].token \in Tokens /\ parent[call'[c][p].new] = call'[c][p].token
    BY <1>1 DEF Stages, Tokens
  <2>1. CASE <<c, p>> = <<b, "refresh">>
    BY <1>1, <1>2, <2>1 DEF IInv, Stages, Usable
  <2>2. CASE <<c, p>> # <<b, "refresh">>
    BY <1>2, <2>2 DEF IInv, Stages
  <2> QED
    BY <2>1, <2>2
<1>7. Revocations' /\ OneSuccessor' /\ LogoutIsFinal'
  BY <1>1 DEF IInv, Revocations, OneSuccessor, LogoutIsFinal, Tokens, Usable, Successors
<1>8. Meetings'
  BY <1>1, <1>3 DEF IInv, Meetings
<1>9. Reads'
  <2> SUFFICES ASSUME NEW c \in Callers, call'[c]["refresh"].stage = "read",
                      call'[c]["refresh"].token \in revoked
               PROVE  call'[c]["refresh"].token \in met
    BY <1>1 DEF Reads
  <2>1. c # b
    BY <1>2 DEF Usable
  <2> QED
    BY <1>2, <1>4, <2>1 DEF IInv, Reads
<1>10. Fresh'
  BY <1>1, <1>3, <1>4 DEF IInv, Fresh, Tokens
<1>11. HandedOver'
  BY <1>1, <1>3, <1>4 DEF IInv, HandedOver, Tokens
<1>12. NoCookie'
  <2>1. \A c \in Callers, p \in Ops :
          call'[c][p].stage # "idle" /\ call'[c][p].token = NoToken => loggedOut # {}
    <3> SUFFICES ASSUME NEW c \in Callers, NEW p \in Ops,
                        call'[c][p].stage # "idle", call'[c][p].token = NoToken
                 PROVE  loggedOut # {}
      OBVIOUS
    <3>1. call[c][p].stage # "idle" /\ call[c][p].token = NoToken
      BY <1>1, <1>2, <1>3
    <3> QED
      BY <3>1 DEF IInv, NoCookie, Out
  <2>2. \A c \in Callers : call'[c]["logout"].stage = "answered" => loggedOut # {}
    BY <1>2, <1>4 DEF IInv, NoCookie
  <2> QED
    BY <1>1, <2>1, <2>2 DEF IInv, NoCookie, Out
\* A token that cannot be used was replaced, logged out or has expired; when it
\* was replaced while this request carried it, the two have met or the answer
\* of the other was lost.
<1>13. ~Usable(t) => Excused(t)
  <2>1. CASE t = NoToken
    BY <1>1, <1>4, <2>1 DEF IInv, NoCookie, Out, Excused, t
  <2>2. CASE t # NoToken /\ t \notin revoked
    <3>1. t \in Tokens /\ expired \in Nat
      BY <1>4, <2>2 DEF IInv, TypeOK, TokensTypeOK, Tokens, NoToken, t
    <3> QED
      BY <2>2, <3>1 DEF Usable, Excused, Tokens
  <2>3. CASE t # NoToken /\ t \in revoked /\ t \notin loggedOut
    <3>1. PICK s \in Tokens : parent[s] = t
      BY <2>3 DEF IInv, Revocations
    <3>2. CASE \E c \in Callers : call[c]["refresh"].new = s
      <4>1. PICK c \in Callers : call[c]["refresh"].new = s
        BY <3>2
      <4>2. call[c]["refresh"].token = t /\ c # b
        BY <1>1, <1>4, <3>1, <4>1, ParentIsOlder DEF IInv, Stages
      <4>3. t \in met
        BY <1>4, <2>3, <4>2 DEF IInv, Meetings, t
      <4> QED
        BY <4>3 DEF Excused
    <3>3. CASE t \in met \cup lost
      BY <3>3 DEF Excused
    <3> QED
      BY <1>4, <2>3, <3>1, <3>2, <3>3 DEF IInv, HandedOver, t
  <2> QED
    BY <2>1, <2>2, <2>3 DEF Excused
<1>14. Refusals'
  <2>1. \A x : Excused(x)' <=> Excused(x)
    BY <1>1 DEF Excused
  <2> SUFFICES ASSUME NEW c \in Callers, call'[c]["refresh"].stage = "answered",
                      call'[c]["refresh"].new = NoToken
               PROVE  Excused(call'[c]["refresh"].token)
    BY <1>1 DEF Refusals, Excused
  <2>2. CASE c = b
    BY <1>2, <1>13, <2>2
  <2>3. CASE c # b
    BY <1>2, <1>4, <2>3 DEF IInv, Refusals
  <2> QED
    BY <2>2, <2>3
<1>15. Unheard'
  BY <1>2 DEF IInv, Unheard, Callers
<1> QED
  BY <1>5, <1>6, <1>7, <1>8, <1>9, <1>10, <1>11, <1>12, <1>14, <1>15 DEF IInv

-------------------------------------------------------------------------------
(* The server revokes a token.                                              *)

LEMMA ServeLogoutStep ==
    ASSUME IInv, NEW b \in Callers, ServeLogout(b) PROVE IInv'
<1> DEFINE t == call[b]["logout"].token
           new == {t} \cap Tokens
<1>1. /\ issued' = issued /\ expired' = expired /\ parent' = parent
      /\ cookie' = cookie /\ page' = page /\ waiting' = waiting
      /\ met' = met /\ lost' = lost
      /\ revoked' = revoked \cup new /\ loggedOut' = loggedOut \cup new
      /\ call[b]["logout"].stage = "sent"
  BY DEF ServeLogout, RevokeRefresh, Answer
<1>2. "refresh" \in Ops /\ "logout" \in Ops
  BY DEF Ops
<1>3. /\ call' \in [Callers -> [Ops -> Calls(issued)]]
      /\ \/ /\ call'[b]["logout"].token = t
            /\ call'[b]["logout"].new = NoToken
            /\ call'[b]["logout"].stage = "answered" /\ b \notin Adrift
         \/ /\ call'[b]["logout"] = Idle
            /\ Idle.stage = "idle" /\ Idle.token = NoToken /\ Idle.new = NoToken
      /\ \A c \in Callers, p \in Ops :
            <<c, p>> # <<b, "logout">> => call'[c][p] = call[c][p]
  <2>1. /\ issued \in Nat /\ NoToken \in 0..issued
        /\ call \in [Callers -> [Ops -> Calls(issued)]]
    BY ParentIsOlder DEF IInv, TypeOK, Calls, NoToken
  <2>2. Answer(b, "logout", NoToken)
    BY DEF ServeLogout
  <2> QED
    BY <1>2, <2>1, <2>2, AnswerWrite DEF Idle
<1>4. call[b]["logout"].new = NoToken
  BY <1>2 DEF IInv, Stages
<1>5. /\ \A c \in Callers : call'[c]["refresh"] = call[c]["refresh"]
      /\ \A c \in Callers, p \in Ops :
            /\ call'[c][p].token \in {call[c][p].token, NoToken}
            /\ call'[c][p].new = call[c][p].new
  BY <1>2, <1>3, <1>4 DEF t
<1> HIDE DEF t, new
<1>6. new \subseteq Tokens /\ \A u \in new : u = t /\ u # NoToken
  BY ParentIsOlder DEF new, IInv
<1>7. TypeOK'
  BY <1>1, <1>3, <1>6 DEF IInv, TypeOK, TokensTypeOK, Tokens, Calls
<1>8. Stages'
  <2> SUFFICES ASSUME NEW c \in Callers, NEW p \in Ops
               PROVE  /\ call'[c][p].stage = "idle" => call'[c][p] = Idle
                      /\ call'[c][p].stage # "answered" => call'[c][p].new = NoToken
                      /\ call'[c][p].stage = "read" => call'[c][p].token \in Tokens
                      /\ p = "logout" => call'[c][p].stage # "read" /\ call'[c][p].new = NoToken
                      /\ call'[c][p].new # NoToken =>
                            call'[c][p].token \in Tokens /\ parent[call'[c][p].new] = call'[c][p].token
    BY <1>1 DEF Stages, Tokens
  <2>1. CASE <<c, p>> = <<b, "logout">>
    BY <1>3, <2>1
  <2>2. CASE <<c, p>> # <<b, "logout">>
    BY <1>3, <2>2 DEF IInv, Stages
  <2> QED
    BY <2>1, <2>2
<1>9. Revocations'
  BY <1>1 DEF IInv, Revocations, Tokens
<1>10. Meetings'
  BY <1>1, <1>5 DEF IInv, Meetings
<1>11. \A c \in Callers : call[c]["refresh"].token = t /\ t # NoToken => t \in met
  BY <1>2 DEF IInv, Meetings, t
<1>12. Reads'
  BY <1>1, <1>5, <1>6, <1>11 DEF IInv, Reads
<1>13. Fresh'
  BY <1>1, <1>2, <1>5 DEF IInv, Fresh, Tokens
<1>14. HandedOver'
  BY <1>1, <1>2, <1>5 DEF IInv, HandedOver, Tokens
<1>15. OneSuccessor'
  BY <1>1 DEF IInv, OneSuccessor, Tokens
<1>16. LogoutIsFinal'
  <2> SUFFICES ASSUME NEW u \in loggedOut'
               PROVE  /\ u \in revoked'
                      /\ \A s \in Tokens : parent[s] = u /\ Usable(s) => u \in met \cup lost
    BY <1>1 DEF LogoutIsFinal, Usable, Successors, Tokens
  <2>1. CASE u \in loggedOut
    BY <1>1, <2>1 DEF IInv, LogoutIsFinal, Revocations, Successors
  <2>2. CASE u \in new
    <3> SUFFICES ASSUME NEW s \in Tokens, parent[s] = u, u \notin met \cup lost
                 PROVE  FALSE
      BY <1>1, <2>2
    <3>1. u = t /\ u # NoToken
      BY <1>6, <2>2
    <3>2. PICK c \in Callers : call[c]["refresh"].new = s
      BY <1>2, <3>1 DEF IInv, HandedOver, t
    <3>3. call[c]["refresh"].token = u
      BY <1>2, <3>2, ParentIsOlder DEF IInv, Stages
    <3> QED
      BY <1>11, <3>1, <3>3
  <2> QED
    BY <1>1, <2>1, <2>2
<1>17. loggedOut' # {}
  <2>1. CASE t = NoToken
    BY <1>1, <1>2, <2>1 DEF IInv, NoCookie, Out, t
  <2>2. CASE t # NoToken
    <3>1. t \in 0..issued /\ issued \in Nat
      BY <1>2, ParentIsOlder DEF IInv, TypeOK, t
    <3>2. t \in Tokens
      BY <2>2, <3>1 DEF Tokens, NoToken
    <3> QED
      BY <1>1, <3>2 DEF new
  <2> QED
    BY <2>1, <2>2
<1>18. NoCookie'
  BY <1>17 DEF NoCookie
<1>19. Refusals'
  BY <1>1, <1>5 DEF IInv, Refusals, Excused
<1>20. Unheard'
  BY <1>3 DEF IInv, Unheard, Callers
<1> QED
  BY <1>7, <1>8, <1>9, <1>10, <1>12, <1>13, <1>14, <1>15, <1>16, <1>18, <1>19, <1>20 DEF IInv

-------------------------------------------------------------------------------
(* The server issues a token.                                               *)

LEMMA IssueWrite ==
    ASSUME TypeOK, NEW t \in 0..issued, Issue(t)
    PROVE  /\ issued' \in 0..MaxTokens /\ issued' # NoToken
           /\ issued' \notin 0..issued
           /\ 0..issued \subseteq 0..issued'
           /\ Tokens' = Tokens \cup {issued'}
           /\ parent' \in [1..MaxTokens -> 0..MaxTokens]
           /\ parent'[issued'] = t
           /\ \A s \in Tokens : parent'[s] = parent[s]
           /\ \A s \in 1..MaxTokens : parent'[s] < s
<1>1. /\ issued \in 0..MaxTokens /\ MaxTokens \in Nat
      /\ issued' = issued + 1 /\ issued < MaxTokens
      /\ parent' = [parent EXCEPT ![issued + 1] = t]
      /\ parent \in [1..MaxTokens -> 0..MaxTokens]
      /\ \A s \in 1..MaxTokens : parent[s] < s
  BY MaxTokensAssumption DEF TypeOK, TokensTypeOK, Issue
<1>2. /\ issued' \in 1..MaxTokens /\ t < issued' /\ t \in 0..MaxTokens
      /\ issued' \in 0..MaxTokens /\ issued' # NoToken
      /\ issued' \notin 0..issued
      /\ 0..issued \subseteq 0..issued'
  BY <1>1 DEF NoToken
<1>3. Tokens' = Tokens \cup {issued'}
  BY <1>1 DEF Tokens
<1>4. \A s \in Tokens : s \in 1..MaxTokens /\ s # issued'
  BY <1>1 DEF Tokens
<1> QED
  BY <1>1, <1>2, <1>3, <1>4

LEMMA LoginStep ==
    ASSUME IInv, NEW b \in Tabs, Login(b) PROVE IInv'
<1>1. /\ Issue(NoToken)
      /\ revoked' = revoked /\ expired' = expired
      /\ call' = call /\ waiting' = waiting
      /\ met' = met /\ lost' = lost /\ loggedOut' = loggedOut
      /\ page' \in [Tabs -> Pages]
  BY DEF Login, Authenticate, history, IInv, TypeOK, Pages
<1>2. cookie' = issued'
  BY <1>1 DEF Login, Store, Issue
<1>3. issued \in Nat /\ NoToken \in 0..issued
  BY ParentIsOlder DEF IInv, NoToken
<1>4. /\ issued' \in 0..MaxTokens /\ issued' # NoToken
      /\ issued' \notin 0..issued
      /\ 0..issued \subseteq 0..issued'
      /\ Tokens' = Tokens \cup {issued'}
      /\ parent' \in [1..MaxTokens -> 0..MaxTokens]
      /\ parent'[issued'] = NoToken
      /\ \A s \in Tokens : parent'[s] = parent[s]
      /\ \A s \in 1..MaxTokens : parent'[s] < s
  BY <1>1, <1>3, IssueWrite DEF IInv
<1>5. /\ \A s \in Tokens : s # issued' /\ parent[s] # issued'
      /\ \A c \in Callers, p \in Ops : call[c][p].token # issued' /\ call[c][p].new # issued'
  BY <1>3, <1>4, ParentIsOlder DEF IInv, TypeOK, Tokens
<1>6. TypeOK'
  <2>1. TokensTypeOK'
    BY <1>1, <1>4 DEF IInv, TypeOK, TokensTypeOK
  <2>2. cookie' \in 0..issued'
    BY <1>2, <1>3, <1>4
  <2> QED
    BY <1>1, <1>4, <2>1, <2>2 DEF IInv, TypeOK
<1>7. Stages'
  <2>1. \A c \in Callers, p \in Ops : call[c][p].new # NoToken => call[c][p].new \in Tokens
    BY <1>3 DEF IInv, TypeOK, Tokens, NoToken
  <2> QED
    BY <1>1, <1>4, <2>1 DEF IInv, Stages
<1>8. Revocations'
  BY <1>1, <1>4 DEF IInv, Revocations, TypeOK, TokensTypeOK
<1>9. Meetings' /\ Reads'
  BY <1>1 DEF IInv, Meetings, Reads
<1>10. Fresh'
  BY <1>1, <1>2, <1>4, <1>5 DEF IInv, Fresh, Ops
<1>11. HandedOver'
  BY <1>1, <1>2, <1>4, <1>5 DEF IInv, HandedOver
<1>12. OneSuccessor'
  BY <1>1, <1>4 DEF IInv, OneSuccessor
<1>13. LogoutIsFinal'
  <2>1. \A u \in loggedOut : u \in Tokens /\ u # NoToken /\ u \in revoked
    BY ParentIsOlder DEF IInv, TypeOK, Revocations
  <2> SUFFICES ASSUME NEW u \in loggedOut, NEW s \in Tokens', parent'[s] = u, Usable(s)'
               PROVE  u \in met \cup lost
    BY <1>1, <2>1 DEF LogoutIsFinal, Usable, Successors
  <2>2. s \in Tokens /\ parent[s] = u
    BY <1>4, <2>1
  <2>3. Usable(s)
    BY <1>1, <2>2 DEF Usable
  <2> QED
    BY <2>2, <2>3 DEF IInv, LogoutIsFinal, Successors
<1>14. NoCookie'
  BY <1>1, <1>2, <1>4 DEF IInv, NoCookie, Out
<1>15. Refusals'
  BY <1>1 DEF IInv, Refusals, Excused
<1>16. Unheard'
  BY <1>1 DEF IInv, Unheard
<1> QED
  BY <1>6, <1>7, <1>8, <1>9, <1>10, <1>11, <1>12, <1>13, <1>14, <1>15, <1>16 DEF IInv

LEMMA CommitRefreshStep ==
    ASSUME IInv, NEW b \in Callers, CommitRefresh(b) PROVE IInv'
<1> DEFINE t == call[b]["refresh"].token
<1>1. "refresh" \in Ops /\ "logout" \in Ops
  BY DEF Ops
<1>2. /\ Issue(t)
      /\ revoked' = revoked \cup {t} /\ expired' = expired
      /\ cookie' = cookie /\ page' = page /\ waiting' = waiting
      /\ met' = met /\ loggedOut' = loggedOut
      /\ call[b]["refresh"].stage = "read"
      /\ call[b]["refresh"].new = NoToken
      /\ t \in Tokens
  BY <1>1 DEF CommitRefresh, RotateRefresh, IInv, Stages
<1>3. /\ issued \in Nat /\ t \in 0..issued /\ t # NoToken
      /\ cookie \in 0..issued
      /\ \A s \in Tokens : parent[s] < s /\ parent[s] \in Nat
      /\ \A c \in Callers, p \in Ops : call[c][p].token \in 0..issued /\ call[c][p].new \in 0..issued
  BY <1>2, ParentIsOlder DEF IInv, TypeOK, Tokens
<1>4. /\ issued' \in 0..MaxTokens /\ issued' # NoToken
      /\ issued' \notin 0..issued
      /\ 0..issued \subseteq 0..issued'
      /\ Tokens' = Tokens \cup {issued'}
      /\ parent' \in [1..MaxTokens -> 0..MaxTokens]
      /\ parent'[issued'] = t
      /\ \A s \in Tokens : parent'[s] = parent[s]
      /\ \A s \in 1..MaxTokens : parent'[s] < s
  BY <1>2, <1>3, IssueWrite DEF IInv
<1>5. /\ call' \in [Callers -> [Ops -> Calls(issued')]]
      /\ \/ /\ call'[b]["refresh"].token = t
            /\ call'[b]["refresh"].new = issued'
            /\ call'[b]["refresh"].stage = "answered" /\ b \notin Adrift
            /\ lost' = lost
         \/ /\ call'[b]["refresh"] = Idle
            /\ Idle.stage = "idle" /\ Idle.token = NoToken /\ Idle.new = NoToken
            /\ lost' = lost \cup {t}
      /\ \A c \in Callers, p \in Ops :
            <<c, p>> # <<b, "refresh">> => call'[c][p] = call[c][p]
  <2>1. issued' \in Nat /\ issued' \in 0..issued'
    BY <1>4, MaxTokensAssumption
  <2>2. call \in [Callers -> [Ops -> Calls(issued')]]
    BY <1>4 DEF IInv, TypeOK, Calls
  <2>3. Answer(b, "refresh", issued')
    BY <1>2 DEF CommitRefresh, Issue
  <2> QED
    BY <1>1, <1>4, <2>1, <2>2, <2>3, AnswerWrite DEF Idle
<1> HIDE DEF t
<1>6. \A s \in Tokens : s # issued' /\ parent[s] # issued'
  BY <1>3, <1>4 DEF Tokens
<1>7. /\ \A c \in Callers, p \in Ops :
            /\ call'[c][p].token \in {call[c][p].token, NoToken}
            /\ call'[c][p].token # issued' /\ call[c][p].new # issued'
      /\ \A c \in Callers : c # b => call'[c]["refresh"] = call[c]["refresh"]
      /\ call'[b]["logout"] = call[b]["logout"]
  BY <1>1, <1>3, <1>4, <1>5 DEF t
<1>8. TypeOK'
  <2>1. TokensTypeOK'
    BY <1>2, <1>4 DEF IInv, TypeOK, TokensTypeOK
  <2>2. cookie' \in 0..issued'
    BY <1>2, <1>3, <1>4
  <2> QED
    BY <1>2, <1>4, <1>5, <2>1, <2>2 DEF IInv, TypeOK, Calls
<1>9. Stages'
  <2> SUFFICES ASSUME NEW c \in Callers, NEW p \in Ops
               PROVE  /\ call'[c][p].stage = "idle" => call'[c][p] = Idle
                      /\ call'[c][p].stage # "answered" => call'[c][p].new = NoToken
                      /\ call'[c][p].stage = "read" => call'[c][p].token \in Tokens'
                      /\ p = "logout" => call'[c][p].stage # "read" /\ call'[c][p].new = NoToken
                      /\ call'[c][p].new # NoToken =>
                            call'[c][p].token \in Tokens' /\ parent'[call'[c][p].new] = call'[c][p].token
    BY DEF Stages
  <2>1. CASE <<c, p>> = <<b, "refresh">>
    BY <1>2, <1>4, <1>5, <2>1
  <2>2. CASE <<c, p>> # <<b, "refresh">>
    <3>1. call[c][p].new # NoToken => call[c][p].new \in Tokens
      BY <1>3 DEF Tokens, NoToken
    <3>2. call'[c][p] = call[c][p]
      BY <1>5, <2>2
    <3> QED
      BY <1>4, <3>1, <3>2 DEF IInv, Stages
  <2> QED
    BY <2>1, <2>2
<1>10. Revocations'
  BY <1>2, <1>4 DEF IInv, Revocations
<1>11. Meetings'
  BY <1>2, <1>7 DEF IInv, Meetings
\* The row was revoked under this exchange only by a request it has met.
<1>12. t \in revoked => t \in met
  BY <1>2 DEF IInv, Reads, t
<1>13. Reads'
  <2> SUFFICES ASSUME NEW c \in Callers, call'[c]["refresh"].stage = "read",
                      call'[c]["refresh"].token \in revoked'
               PROVE  call'[c]["refresh"].token \in met
    BY <1>2 DEF Reads
  <2>1. c # b /\ call'[c]["refresh"] = call[c]["refresh"]
    BY <1>5, <1>7
  <2>2. CASE call[c]["refresh"].token = t
    BY <1>1, <1>3, <2>1, <2>2 DEF IInv, Meetings, t
  <2>3. CASE call[c]["refresh"].token # t
    BY <1>2, <2>1, <2>3 DEF IInv, Reads
  <2> QED
    BY <2>2, <2>3
<1>14. Fresh'
  <2> SUFFICES ASSUME NEW c \in Callers, call'[c]["refresh"].new # NoToken
               PROVE  LET n == call'[c]["refresh"].new
                      IN  /\ cookie # n
                          /\ \A s \in Tokens' : parent'[s] # n
                          /\ \A d \in Callers, p \in Ops : call'[d][p].token # n
                          /\ \A d \in Callers : call'[d]["refresh"].new = n => d = c
    BY <1>2 DEF Fresh
  <2>1. CASE c = b
    <3>1. cookie # issued' /\ t # issued'
      BY <1>3, <1>4
    <3>2. \A s \in Tokens' : parent'[s] # issued'
      BY <1>4, <1>6, <3>1
    <3>3. \A d \in Callers : call'[d]["refresh"].new = issued' => d = b
      BY <1>1, <1>7
    <3> QED
      BY <1>5, <1>7, <2>1, <3>1, <3>2, <3>3
  <2>2. CASE c # b
    <3> DEFINE n == call[c]["refresh"].new
    <3>1. call'[c]["refresh"].new = n /\ n # NoToken /\ n # issued'
      BY <1>1, <1>7, <2>2
    <3>2. /\ cookie # n
          /\ \A s \in Tokens : parent[s] # n
          /\ \A d \in Callers, p \in Ops : call[d][p].token # n
          /\ \A d \in Callers : call[d]["refresh"].new = n => d = c
      BY <3>1 DEF IInv, Fresh
    <3>3. t # n
      BY <1>1, <3>2 DEF t
    <3> HIDE DEF n
    <3>4. \A s \in Tokens' : parent'[s] # n
      BY <1>4, <3>2, <3>3
    <3>5. \A d \in Callers : call'[d]["refresh"].new = n => d = c
      BY <1>5, <1>7, <3>1, <3>2
    <3> QED
      BY <1>7, <3>1, <3>2, <3>4, <3>5
  <2> QED
    BY <2>1, <2>2
<1>15. HandedOver'
  <2> SUFFICES ASSUME NEW s \in Tokens', parent'[s] # NoToken,
                      parent'[s] \notin met \cup lost'
               PROVE  \/ \E c \in Callers : call'[c]["refresh"].new = s
                      \/ /\ cookie # parent'[s]
                         /\ \A c \in Callers, p \in Ops : call'[c][p].token # parent'[s]
    BY <1>2 DEF HandedOver
  <2>1. CASE s = issued'
    BY <1>4, <1>5, <2>1
  <2>2. CASE s \in Tokens
    <3>1. /\ parent'[s] = parent[s] /\ s # NoToken
          /\ parent[s] # NoToken /\ parent[s] \notin met \cup lost
      BY <1>4, <1>5, <2>2, ParentIsOlder DEF IInv
    <3>2. CASE \E c \in Callers : call[c]["refresh"].new = s
      BY <1>2, <1>7, <3>1, <3>2
    <3>3. CASE /\ cookie # parent[s]
               /\ \A c \in Callers, p \in Ops : call[c][p].token # parent[s]
      BY <1>7, <3>1, <3>3
    <3> QED
      BY <2>2, <3>1, <3>2, <3>3 DEF IInv, HandedOver
  <2> QED
    BY <1>4, <2>1, <2>2
<1>16. OneSuccessor'
  <2>1. \A s \in Tokens : parent[s] = t => t \in met
    BY <1>3, <1>12 DEF IInv, Revocations
  <2> SUFFICES ASSUME NEW s \in Tokens', NEW u \in Tokens', s # u,
                      parent'[s] # NoToken, parent'[s] = parent'[u]
               PROVE  parent'[s] \in met
    BY <1>2 DEF OneSuccessor
  <2>2. CASE s = issued' \/ u = issued'
    BY <1>4, <2>1, <2>2
  <2>3. CASE s \in Tokens /\ u \in Tokens
    BY <1>4, <2>3 DEF IInv, OneSuccessor
  <2> QED
    BY <1>4, <2>2, <2>3
<1>17. LogoutIsFinal'
  <2>1. \A u \in loggedOut : u \in revoked
    BY DEF IInv, Revocations
  <2> SUFFICES ASSUME NEW u \in loggedOut, NEW s \in Tokens', parent'[s] = u, Usable(s)'
               PROVE  u \in met \cup lost'
    BY <1>2, <2>1 DEF LogoutIsFinal, Usable, Successors
  <2>2. CASE s = issued'
    BY <1>4, <1>12, <2>1, <2>2
  <2>3. CASE s \in Tokens
    <3>1. parent[s] = u /\ Usable(s) /\ lost \subseteq lost'
      BY <1>2, <1>4, <1>5, <2>3 DEF Usable
    <3> QED
      BY <2>3, <3>1 DEF IInv, LogoutIsFinal, Successors
  <2> QED
    BY <1>4, <2>2, <2>3
<1>18. NoCookie'
  <2>1. \A c \in Callers, p \in Ops :
          call'[c][p].stage # "idle" /\ call'[c][p].token = NoToken => loggedOut # {}
    BY <1>3, <1>5 DEF IInv, NoCookie, Out
  <2>2. \A c \in Callers : call'[c]["logout"].stage = "answered" => loggedOut # {}
    BY <1>1, <1>5 DEF IInv, NoCookie
  <2> QED
    BY <1>2, <2>1, <2>2 DEF IInv, NoCookie, Out
<1>19. Refusals'
  BY <1>2, <1>4, <1>5, <1>7 DEF IInv, Refusals, Excused
<1>20. Unheard'
  BY <1>5 DEF IInv, Unheard, Callers
<1> QED
  BY <1>8, <1>9, <1>10, <1>11, <1>13, <1>14, <1>15, <1>16, <1>17, <1>18, <1>19, <1>20 DEF IInv

-------------------------------------------------------------------------------
(* A row expires.                                                           *)

LEMMA ExpireTokenStep ==
    ASSUME IInv, ExpireToken PROVE IInv'
<1>1. /\ issued' = issued /\ revoked' = revoked /\ parent' = parent
      /\ expired \in Nat /\ expired' = expired + 1 /\ expired' \in 0..issued
      /\ cookie' = cookie /\ page' = page /\ waiting' = waiting /\ call' = call
      /\ met' = met /\ lost' = lost /\ loggedOut' = loggedOut
  BY ParentIsOlder
     DEF ExpireToken, Expire, clientVars, history, IInv, TypeOK, TokensTypeOK
<1>2. TypeOK'
  BY <1>1 DEF IInv, TypeOK, TokensTypeOK, Tokens
<1>3. Stages' /\ Revocations' /\ Meetings' /\ Reads' /\ Fresh' /\ NoCookie'
  BY <1>1 DEF IInv, Stages, Revocations, Meetings, Reads, Fresh, NoCookie, Out, Tokens
<1>4. HandedOver' /\ OneSuccessor'
  BY <1>1 DEF IInv, HandedOver, OneSuccessor, Tokens
<1>5. \A s \in Tokens : s > expired' => s > expired
  BY <1>1, ParentIsOlder DEF IInv, Tokens
<1>6. LogoutIsFinal'
  BY <1>1, <1>5 DEF IInv, LogoutIsFinal, Usable, Successors, Tokens
<1>7. Refusals'
  <2>1. 1..expired \subseteq 1..expired'
    BY <1>1
  <2> QED
    BY <1>1, <2>1 DEF IInv, Refusals, Excused
<1>8. Unheard'
  BY <1>1 DEF IInv, Unheard
<1> QED
  BY <1>2, <1>3, <1>4, <1>6, <1>7, <1>8 DEF IInv

-------------------------------------------------------------------------------
(* The other steps are sent requests and settled ones.                      *)

LEMMA SignOutType == ASSUME TypeOK, NEW b \in Tabs PROVE SignOut(b) \in [Tabs -> Pages]
BY DEF TypeOK, SignOut, Pages

LEMMA TryRefreshStep ==
    ASSUME IInv, NEW b \in Tabs, TryRefresh(b),
           UNCHANGED <<tokenVars, cookie, lost, loggedOut>>,
           page' \in [Tabs -> Pages], waiting' \subseteq Tabs
    PROVE  IInv'
<1>1. CASE Out(b, "refresh")
  <2>1. call' = call /\ met' = met
    BY <1>1 DEF TryRefresh
  <2>2. TypeOK'
    BY <2>1 DEF IInv, TypeOK, TokensTypeOK, Tokens, tokenVars
  <2> QED
    BY <2>1, <2>2 DEF IInv, Stages, Unheard, Revocations, Meetings, Reads, Fresh, HandedOver,
       OneSuccessor, LogoutIsFinal, NoCookie, Refusals, Out, Tokens, Usable, Successors,
       Excused, tokenVars
<1>2. CASE ~Out(b, "refresh")
  <2>1. call' = Sent(b, "refresh") /\ met' = Overlap(b, "refresh")
    BY <1>2 DEF TryRefresh
  <2>2. "refresh" \in Ops /\ b \in Callers
    BY DEF Ops, Callers
  <2> QED
    BY <1>2, <2>1, <2>2, SendStep
<1> QED
  BY <1>1, <1>2

LEMMA UserStep == ASSUME IInv, NEW b \in Tabs, User(b) PROVE IInv'
<1>1. "refresh" \in Ops /\ "logout" \in Ops /\ b \in Callers
  BY DEF Ops, Callers
<1>2. CASE Close(b)
  <2>1. page' \in [Tabs -> Pages] /\ waiting' \subseteq Tabs
    BY <1>2 DEF Close, IInv, TypeOK, Pages
  <2>2. Ops \in SUBSET Ops /\ GiveUp(b, Ops) /\ UNCHANGED <<tokenVars, cookie, met, loggedOut>>
    BY <1>2 DEF Close
  <2> QED
    BY <2>1, <2>2, GiveUpStep
<1>3. CASE Load(b)
  <2>1. page' \in [Tabs -> Pages] /\ waiting' \subseteq Tabs
    BY <1>3 DEF Load, IInv, TypeOK, Pages
  <2>2. TryRefresh(b) /\ UNCHANGED <<tokenVars, cookie, lost, loggedOut>>
    BY <1>3 DEF Load
  <2> QED
    BY <2>1, <2>2, TryRefreshStep
<1>4. CASE Login(b)
  BY <1>4, LoginStep
<1>5. CASE Logout(b)
  BY <1>1, <1>5, SendStep DEF Logout, IInv, TypeOK
<1> QED
  BY <1>2, <1>3, <1>4, <1>5 DEF User

LEMMA ClientStep == ASSUME IInv, NEW b \in Tabs, Client(b) PROVE IInv'
<1>1. "refresh" \in Ops /\ "logout" \in Ops /\ b \in Callers
  BY DEF Ops, Callers
<1>2. waiting \subseteq Tabs /\ waiting \ {b} \subseteq Tabs /\ lost \subseteq Tokens
  BY DEF IInv, TypeOK
<1>3. CASE Refreshed(b)
  <2>1. page' \in [Tabs -> Pages]
    BY <1>3, SignOutType DEF Refreshed, IInv, TypeOK, Pages
  <2>2. /\ cookie' = call[b]["refresh"].new /\ call[b]["refresh"].new # NoToken
        /\ call' = Settle(b, "refresh") /\ waiting' = waiting \ {b}
        /\ UNCHANGED <<tokenVars, met, loggedOut>> /\ lost' = lost
    BY <1>3 DEF Refreshed, Store, history
  <2> QED
    BY <1>1, <1>2, <2>1, <2>2, SettleStep
<1>4. CASE RefreshRefused(b)
  <2>1. /\ page' = SignOut(b) /\ waiting' = waiting \ {b}
        /\ call' = Settle(b, "refresh") /\ call[b]["refresh"].new = NoToken
        /\ UNCHANGED <<tokenVars, met, loggedOut>> /\ lost' = lost /\ cookie' = cookie
    BY <1>4 DEF RefreshRefused, NotRefreshed, history
  <2> QED
    BY <1>1, <1>2, <2>1, SignOutType, SettleStep DEF IInv
<1>5. CASE RefreshBreaks(b)
  <2> DEFINE c == call[b]["refresh"]
  <2>1. /\ page' = SignOut(b) /\ waiting' = waiting \ {b}
        /\ UNCHANGED <<tokenVars, met, loggedOut>>
        /\ \/ c.new # NoToken /\ cookie' = c.new /\ call' = Settle(b, "refresh") /\ lost' = lost
           \/ GiveUp(b, {"refresh"}) /\ cookie' = cookie
    BY <1>5 DEF RefreshBreaks, NotRefreshed, Store
  <2>2. page' \in [Tabs -> Pages] /\ waiting' \subseteq Tabs
    BY <1>2, <2>1, SignOutType DEF IInv
  <2>3. CASE c.new # NoToken /\ cookie' = c.new /\ call' = Settle(b, "refresh") /\ lost' = lost
    BY <1>1, <1>2, <2>1, <2>2, <2>3, SettleStep
  <2>4. CASE GiveUp(b, {"refresh"}) /\ cookie' = cookie
    <3>1. {"refresh"} \in SUBSET Ops
      BY <1>1
    <3> QED
      BY <2>1, <2>2, <2>4, <3>1, GiveUpStep
  <2> QED
    BY <2>1, <2>3, <2>4
<1>6. CASE LogoutEnds(b)
  <2>1. /\ page' = SignOut(b) /\ waiting' = waiting
        /\ UNCHANGED <<tokenVars, met, loggedOut>>
        /\ \/ /\ call[b]["logout"].stage = "answered" /\ cookie' = NoToken
              /\ call' = Settle(b, "logout") /\ lost' = lost
           \/ GiveUp(b, {"logout"}) /\ cookie' = cookie
    BY <1>6 DEF LogoutEnds
  <2>2. page' \in [Tabs -> Pages] /\ waiting' \subseteq Tabs
    BY <1>2, <2>1, SignOutType DEF IInv
  <2>3. CASE /\ call[b]["logout"].stage = "answered" /\ cookie' = NoToken
             /\ call' = Settle(b, "logout") /\ lost' = lost
    <3>1. call[b]["logout"].new = NoToken /\ loggedOut # {}
      BY <1>1, <2>3 DEF IInv, Stages, NoCookie
    <3> QED
      BY <1>1, <1>2, <2>1, <2>2, <2>3, <3>1, SettleStep
  <2>4. CASE GiveUp(b, {"logout"}) /\ cookie' = cookie
    <3>1. {"logout"} \in SUBSET Ops
      BY <1>1
    <3> QED
      BY <2>1, <2>2, <2>4, <3>1, GiveUpStep
  <2> QED
    BY <2>1, <2>3, <2>4
<1>7. CASE Unauthorized(b)
  <2>1. page' \in [Tabs -> Pages] /\ waiting' \subseteq Tabs
    BY <1>7 DEF Unauthorized, IInv, TypeOK
  <2>2. TryRefresh(b) /\ UNCHANGED <<tokenVars, cookie, lost, loggedOut>>
    BY <1>7 DEF Unauthorized
  <2> QED
    BY <2>1, <2>2, TryRefreshStep
<1> QED
  BY <1>3, <1>4, <1>5, <1>6, <1>7 DEF Client

LEMMA VanishStep ==
    ASSUME IInv, NEW a \in Adrift, NEW o \in Ops, Vanish(a, o) PROVE IInv'
<1>1. a \in Callers
  BY DEF Callers
<1>2. /\ call' = Settle(a, o)
      /\ UNCHANGED <<tokenVars, met, loggedOut>> /\ cookie' = cookie
      /\ page' \in [Tabs -> Pages] /\ waiting' \subseteq Tabs
      /\ lost' = lost /\ lost \subseteq Tokens
      /\ call[a][o].new = NoToken
  BY <1>1 DEF Vanish, history, IInv, TypeOK, Unheard, Stages
<1> QED
  BY <1>1, <1>2, SettleStep

LEMMA NextIInv == IInv /\ [Next]_vars => IInv'
<1> SUFFICES ASSUME IInv, [Next]_vars PROVE IInv'
  OBVIOUS
<1>1. ASSUME NEW b \in Tabs, User(b) PROVE IInv'
  BY <1>1, UserStep
<1>2. ASSUME NEW b \in Tabs, Client(b) PROVE IInv'
  BY <1>2, ClientStep
<1>3. ASSUME NEW c \in Callers, Server(c) PROVE IInv'
  BY <1>3, ReadRefreshStep, CommitRefreshStep, ServeLogoutStep DEF Server
<1>4. ASSUME NEW a \in Adrift, NEW o \in Ops, Vanish(a, o) PROVE IInv'
  BY <1>4, VanishStep
<1>5. CASE ExpireToken
  BY <1>5, ExpireTokenStep
<1>6. CASE UNCHANGED vars
  <2>1. TypeOK'
    BY <1>6 DEF vars, tokenVars, clientVars, history, IInv, TypeOK, TokensTypeOK, Tokens
  <2> QED
    BY <1>6, <2>1 DEF vars, tokenVars, clientVars, history, IInv, Stages, Unheard, Revocations, Meetings,
       Reads, Fresh, HandedOver, OneSuccessor, LogoutIsFinal, NoCookie, Refusals, Out, Tokens,
       Usable, Successors, Excused
<1> QED
  BY <1>1, <1>2, <1>3, <1>4, <1>5, <1>6 DEF Next

LEMMA Invariance == Spec => []IInv
BY InitIInv, NextIInv, PTL DEF Spec

-------------------------------------------------------------------------------
(* The properties.                                                          *)

\* Rows, cookie, pages and requests keep their types; no row replaces a younger
\* one.
THEOREM SessionTypeCorrect == Spec => []TypeOK
BY Invariance, PTL DEF IInv

\* However many tabs share the cookie, and however many requests they leave
\* behind, a refresh token is exchanged twice only when two requests with it were
\* under way at the same time.
THEOREM TokensAreUsedOnce == Spec => []UsedOnce
<1>1. IInv => UsedOnce
  <2> SUFFICES ASSUME IInv, NEW t \in Tokens, Cardinality(Successors(t)) > 1
               PROVE  t \in met
    BY DEF UsedOnce
  <2>1. \E x, y \in Successors(t) : x # y
    BY SuccessorsFinite, TwoElements DEF IInv
  <2>2. PICK x \in Tokens, y \in Tokens : x # y /\ parent[x] = t /\ parent[y] = t
    BY <2>1 DEF Successors
  <2>3. t # NoToken
    BY ParentIsOlder DEF IInv
  <2> QED
    BY <2>2, <2>3 DEF IInv, OneSuccessor
<1> QED
  BY <1>1, Invariance, PTL

\* A logout the server has processed ends the session it was sent for: the
\* token is dead, and so is what it was exchanged for, but for an exchange the
\* logout has met or one whose answer was lost.
THEOREM LogoutsAreFinal == Spec => []LogoutIsFinal
BY Invariance, PTL DEF IInv

\* No step of another actor, and no step of its own without one of the listed
\* causes, signs a tab out.
THEOREM SignOutsHaveCauses == Spec => SignedOutForCause
<1> DEFINE Cause(b) == \/ Out(b, "logout") /\ call'[b]["logout"] = Idle
                       \/ call[b]["refresh"].stage \in {"sent", "read"}
                       \/ call[b]["refresh"].new # NoToken
                       \/ Excused(call[b]["refresh"].token)
<1>1. ASSUME IInv, Next, NEW b \in Tabs, page[b] = "authenticated", page'[b] = "left"
      PROVE  Cause(b)
  <2>1. /\ page \in [Tabs -> Pages] /\ b \in Callers
        /\ "refresh" \in Ops /\ "logout" \in Ops
    BY <1>1 DEF IInv, TypeOK, Ops, Callers
  <2>2. ASSUME NEW c \in Tabs, User(c) PROVE FALSE
    BY <1>1, <2>1, <2>2 DEF User, Close, Load, Login, Logout
  <2>3. ASSUME NEW c \in Callers, Server(c) PROVE FALSE
    BY <1>1, <2>3 DEF Server, ReadRefresh, CommitRefresh, ServeLogout
  <2>4. ASSUME NEW a \in Adrift, NEW o \in Ops, Vanish(a, o) PROVE FALSE
    BY <1>1, <2>4 DEF Vanish
  <2>5. ~ExpireToken
    BY <1>1 DEF ExpireToken, clientVars
  <2>6. ASSUME NEW c \in Tabs, Client(c) PROVE Cause(b)
    <3>1. ~Refreshed(c)
      BY <1>1, <2>1 DEF Refreshed, SignOut
    <3>2. ~Unauthorized(c)
      BY <1>1 DEF Unauthorized
    <3>3. page' = SignOut(c)
      BY <2>6, <3>1, <3>2 DEF Client, RefreshRefused, RefreshBreaks, NotRefreshed, LogoutEnds
    <3>4. c = b
      BY <1>1, <2>1, <3>3 DEF SignOut
    <3>5. CASE RefreshRefused(c)
      BY <1>1, <2>1, <3>4, <3>5 DEF RefreshRefused, IInv, Refusals
    <3>6. CASE RefreshBreaks(c)
      <4>1. call[b]["refresh"].stage \in {"sent", "read", "answered"}
        BY <1>1, <2>1, <3>4, <3>6 DEF RefreshBreaks, IInv, TypeOK
      <4> QED
        BY <1>1, <2>1, <4>1 DEF IInv, Refusals
    <3>7. CASE LogoutEnds(c)
      <4>1. call'[b]["logout"] = Idle
        <5>1. CASE call' = Settle(b, "logout")
          BY <1>1, <2>1, <5>1 DEF Settle, IInv, TypeOK
        <5>2. CASE GiveUp(b, {"logout"})
          <6>1. {"logout"} \in SUBSET Ops
            BY <2>1
          <6> QED
            BY <1>1, <5>2, <6>1, GiveUpWrite
        <5> QED
          BY <3>4, <3>7, <5>1, <5>2 DEF LogoutEnds
      <4> QED
        BY <3>4, <3>7, <4>1 DEF LogoutEnds
    <3> QED
      BY <2>6, <3>1, <3>2, <3>5, <3>6, <3>7 DEF Client
  <2> QED
    BY <1>1, <2>2, <2>3, <2>4, <2>5, <2>6 DEF Next
<1>2. IInv /\ [Next]_vars =>
        [\A b \in Tabs :
            page[b] = "authenticated" /\ page'[b] = "left" => Cause(b)]_vars
  BY <1>1
<1> QED
  BY <1>2, Invariance, PTL DEF Spec, SignedOutForCause
===============================================================================
