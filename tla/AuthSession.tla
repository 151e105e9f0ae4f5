---------------------------- MODULE AuthSession ----------------------------
(***************************************************************************)
(* lib/features/auth/providers/auth_providers.dart: the session of the     *)
(* signed-in user, its token in memory and in the secure store, and the    *)
(* 401s that core/network/auth_interceptor.dart reports.                   *)
(*                                                                         *)
(* Every operation (restore at launch, login, register, logout, expiry)    *)
(* takes the next session generation and, after each await, goes on only   *)
(* while it is the latest.  Writes to the secure store wait in one queue.  *)
(* An action is what runs between two awaits; the interceptor's await of   *)
(* a value in memory lets nothing in between.                              *)
(*                                                                         *)
(* Left out: a sign-in while a user is still signed in (the login screen   *)
(* is offered to nobody else), register (login under another name) and the *)
(* events that the settings synchronisation listens to.                    *)
(***************************************************************************)
EXTENDS Naturals, Sequences

CONSTANTS
  Tokens,        \* access tokens the account service issues
  None,
  MaxOperations  \* bound: operations from one launch of the app to the next

ASSUME AuthAssumptions == None \notin Tokens /\ MaxOperations \in Nat \ {0}

VARIABLES
  stored,       \* the token in the secure store
  accessToken,  \* _AuthSessionCredentials
  session,      \* the user in AuthController.state, by the token that loaded it
  generation,   \* _AuthSessionGeneration
  operation,    \* generation -> its operation and the await it has reached
  mutations,    \* _AuthTokenMutationQueue
  sent,         \* generations with an authenticated request of a feature under way
  rejected,     \* generations whose 401 waits for its turn of the event queue
  (* history *)
  issued,       \* tokens the service has given out
  refused,      \* tokens it has answered with a 401
  unsure        \* the platform refused the last mutation of the store

memory == <<accessToken, session, generation, operation>>
network == <<sent, rejected, issued, refused>>
store == <<stored, mutations, unsure>>
vars == <<memory, network, store>>

Generations == 1 .. MaxOperations
MaybeToken == Tokens \cup {None}

Operation ==
  [kind : {"none", "restore", "login", "logout", "expire"},
   at : {"reading", "asking", "writing", "loading", "clearing", "ended"},
   token : MaybeToken]   \* its own; of a logout, the one it put an end to

Unused == [kind |-> "none", at |-> "ended", token |-> None]
Restore == [kind |-> "restore", at |-> "reading", token |-> None]

\* A token to write, or None to clear the store.
Mutation == [by : Generations, to : MaybeToken]

TypeOK ==
  /\ stored \in MaybeToken /\ accessToken \in MaybeToken /\ session \in MaybeToken
  /\ generation \in Generations
  /\ operation \in [Generations -> Operation]
  /\ mutations \in Seq(Mutation)
  /\ sent \subseteq Generations /\ rejected \subseteq Generations
  /\ issued \subseteq Tokens /\ refused \subseteq Tokens
  /\ unsure \in BOOLEAN

\* The app is launched: build() awaits the secure store.
Fresh ==
  [g \in Generations |-> IF g = 1 THEN Restore ELSE Unused]

Init ==
  /\ stored = None /\ accessToken = None /\ session = None
  /\ generation = 1 /\ operation = Fresh /\ mutations = << >>
  /\ sent = {} /\ rejected = {}
  /\ issued = {} /\ refused = {} /\ unsure = FALSE

\* The app is killed and launched again: whatever still waited for the store is lost.
Kill ==
  /\ accessToken' = None /\ session' = None
  /\ generation' = 1 /\ operation' = Fresh /\ mutations' = << >>
  /\ sent' = {} /\ rejected' = {} /\ unsure' = FALSE
  /\ UNCHANGED <<stored, issued, refused>>

IsCurrent(g) == generation = g

\* The operation goes on to its next await, or returns.
Await(g, at, token) ==
  operation' = [operation EXCEPT ![g].at = at, ![g].token = token]
Return(g) == operation' = [operation EXCEPT ![g].at = "ended"]

Enqueue(g, token) == mutations' = Append(mutations, [by |-> g, to |-> token])

Start(op) ==
  /\ generation < MaxOperations
  /\ generation' = generation + 1
  /\ operation' = [operation EXCEPT ![generation + 1] = op]

(***************************************************************************)
(* Restore at launch                                                       *)
(***************************************************************************)

\* build() after `await _tokens.read()`, which may fail.
HasRead(g) ==
  /\ operation[g].at = "reading"
  /\ \/ /\ Return(g)
        /\ UNCHANGED accessToken
     \/ /\ IsCurrent(g) /\ stored # None
        /\ accessToken' = stored
        /\ Await(g, "loading", stored)
  /\ UNCHANGED <<session, generation, network, store>>

(***************************************************************************)
(* Login                                                                   *)
(***************************************************************************)

Login ==
  /\ session = None
  /\ Start([kind |-> "login", at |-> "asking", token |-> None])
  /\ accessToken' = None
  /\ UNCHANGED <<session, network, store>>

\* The service answers with a new token, which an overtaken login throws away.
HasToken(g, t) ==
  /\ operation[g].at = "asking" /\ t \notin issued
  /\ issued' = issued \cup {t}
  /\ IF IsCurrent(g)
     THEN /\ accessToken' = t
          /\ Await(g, "writing", t)
          /\ Enqueue(g, t)
     ELSE /\ Return(g)
          /\ UNCHANGED <<accessToken, mutations>>
  /\ UNCHANGED <<stored, session, generation, sent, rejected, refused, unsure>>

\* ... or with a failure, which leaves what is stored alone.
NoToken(g) ==
  /\ operation[g].at = "asking"
  /\ Return(g)
  /\ UNCHANGED <<accessToken, session, generation, network, store>>

(***************************************************************************)
(* The answer to /auth/me                                                  *)
(***************************************************************************)

\* A mutant: the answer is published without a look at the generation.
LoadedUnchecked(g) ==
  /\ operation[g].at = "loading"
  /\ session' = operation[g].token
  /\ Return(g)
  /\ UNCHANGED <<accessToken, generation, network, store>>

Loaded(g) ==
  /\ operation[g].at = "loading"
  /\ session' = IF IsCurrent(g) THEN operation[g].token ELSE session
  /\ Return(g)
  /\ UNCHANGED <<accessToken, generation, network, store>>

\* The interceptor sees the 401 before the operation does.  The token is dropped,
\* but a restore that failed for another reason keeps it in the store.
NotLoaded(g, unauthorized) ==
  /\ operation[g].at = "loading"
  /\ IF unauthorized
     THEN /\ refused' = refused \cup {operation[g].token}
          /\ rejected' = rejected \cup {g}
     ELSE UNCHANGED <<refused, rejected>>
  /\ IF ~IsCurrent(g)
     THEN Return(g) /\ UNCHANGED <<accessToken, mutations>>
     ELSE /\ accessToken' = None
          /\ IF operation[g].kind = "login" \/ unauthorized
             THEN Await(g, "clearing", operation[g].token) /\ Enqueue(g, None)
             ELSE Return(g) /\ UNCHANGED mutations
  /\ UNCHANGED <<stored, session, generation, sent, issued, unsure>>

(***************************************************************************)
(* The queue of store mutations                                            *)
(***************************************************************************)

\* The operation that waited for the mutation; a login goes on to /auth/me.
Resume(g) ==
  IF operation[g].at = "writing" /\ IsCurrent(g)
  THEN Await(g, "loading", operation[g].token)
  ELSE Return(g)

\* A mutant: each mutation goes to the platform at once.
MutateInAnyOrder(fails) ==
  \E i \in DOMAIN mutations :
    /\ stored' = IF fails THEN stored ELSE mutations[i].to
    /\ unsure' = fails
    /\ mutations' = SubSeq(mutations, 1, i - 1)
                    \o SubSeq(mutations, i + 1, Len(mutations))
    /\ Resume(mutations[i].by)
    /\ UNCHANGED <<accessToken, session, generation, network>>

\* A mutant: a mutation that throws poisons the queue.
MutateOrPoison(fails) ==
  /\ mutations # << >>
  /\ unsure' = fails
  /\ IF fails
     THEN /\ mutations' = << >> /\ UNCHANGED <<stored, operation>>
     ELSE /\ stored' = Head(mutations).to
          /\ mutations' = Tail(mutations)
          /\ Resume(Head(mutations).by)
  /\ UNCHANGED <<accessToken, session, generation, network>>

Mutate(fails) ==
  /\ mutations # << >>
  /\ stored' = IF fails THEN stored ELSE Head(mutations).to
  /\ unsure' = fails
  /\ mutations' = Tail(mutations)
  /\ Resume(Head(mutations).by)
  /\ UNCHANGED <<accessToken, session, generation, network>>

(***************************************************************************)
(* The end of a session                                                    *)
(***************************************************************************)

\* _publishLoggedOutAndClearToken.
SignOut(kind) ==
  /\ Start([kind |-> kind, at |-> "clearing", token |-> session])
  /\ accessToken' = None
  /\ session' = None
  /\ Enqueue(generation + 1, None)
  /\ UNCHANGED <<stored, unsure, sent, issued, refused>>

Logout == SignOut("logout") /\ UNCHANGED rejected

\* AuthInterceptor.onRequest stamps a feature's request with the generation.
Request ==
  /\ accessToken # None
  /\ sent' = sent \cup {generation}
  /\ UNCHANGED <<memory, store, rejected, issued, refused>>

\* ... which is answered, perhaps much later; a 401 calls onUnauthorized.
Answer(g, unauthorized) ==
  /\ g \in sent
  /\ sent' = sent \ {g}
  /\ IF unauthorized
     THEN /\ refused' = refused \cup {operation[g].token}
          /\ rejected' = rejected \cup {g}
     ELSE UNCHANGED <<refused, rejected>>
  /\ UNCHANGED <<memory, store, issued>>

\* A mutant: any 401 ends the session there is.
ExpireAny(g) ==
  /\ g \in rejected
  /\ rejected' = rejected \ {g}
  /\ IF session # None
     THEN SignOut("expire")
     ELSE UNCHANGED <<memory, store, sent, issued, refused>>

\* Its turn of the event queue: invalidateSession, if that session is still there.
Expire(g) ==
  /\ g \in rejected
  /\ rejected' = rejected \ {g}
  /\ IF IsCurrent(g) /\ session # None
     THEN SignOut("expire")
     ELSE UNCHANGED <<memory, store, sent, issued, refused>>

Step(g) ==
  \/ HasRead(g) \/ NoToken(g) \/ Loaded(g)
  \/ \E t \in Tokens : HasToken(g, t)
  \/ \E unauthorized \in BOOLEAN : NotLoaded(g, unauthorized)

RunQueue == \E fails \in BOOLEAN : Mutate(fails)

Next ==
  \/ Login \/ Logout \/ Request \/ Kill \/ RunQueue
  \/ \E g \in Generations :
       \/ Step(g) \/ Expire(g)
       \/ \E unauthorized \in BOOLEAN : Answer(g, unauthorized)

\* Requests have timeouts (dio_factory.dart) and the platform answers.  The user,
\* the features and the service owe nothing.
Spec ==
  /\ Init /\ [][Next]_vars
  /\ WF_vars(RunQueue) /\ \A g \in Generations : WF_vars(Step(g))

-----------------------------------------------------------------------------
(***************************************************************************)
(* Properties                                                              *)
(***************************************************************************)

SignedOut == operation[generation].kind \in {"logout", "expire"}

\* The last word wins: the user that is shown was loaded by the latest operation
\* with the token that requests carry, and after a logout there is neither,
\* however many restores and logins are still under way.
LastWordWins ==
  /\ TypeOK
  /\ session # None => session = accessToken
  /\ accessToken # None => ~SignedOut /\ accessToken = operation[generation].token

\* Once the queue has run, the secure store agrees with what the user sees, as long
\* as the platform did not refuse: a signed-in user's own token, and none after
\* a logout, whatever older writes and clears were under way.
StoreFollowsSession ==
  mutations = << >> /\ ~unsure =>
    /\ session # None => stored = session
    /\ SignedOut => stored = None

\* A session ends without the user only if the service refused its own token: a late
\* 401 of an earlier session is nobody's.
ExpiredWasRefused ==
  \A g \in Generations : operation[g].kind = "expire" => operation[g].token \in refused

\* Every operation returns, also one that was overtaken or whose mutation failed,
\* unless the app is killed again and again.
OperationsEnd ==
  []<><<Kill>>_vars
    \/ \A g \in Generations : operation[g].at # "ended" ~> operation[g].at = "ended"
=============================================================================
