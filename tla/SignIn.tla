------------------------------- MODULE SignIn -------------------------------
(***************************************************************************)
(* Passwordless sign-in (auth.py, AuthStore of store.py, the auth handlers *)
(* of main.py).  A code is sent to an address and exchanged for a session. *)
(* Codes and request times live in memory, users and sessions in SQLite.   *)
(* Handlers run in a thread pool and AuthStore locks one call at a time,   *)
(* so a request is a thread that makes one call per step.                  *)
(*                                                                         *)
(* Time is what is left of each lifetime, in ticks.  A hash is the code it *)
(* was computed from.  A response that changes nothing (422, 429, a        *)
(* missing bearer token) is not a step.                                    *)
(***************************************************************************)
EXTENDS Naturals, Sequences, SequencesExt, FiniteSets

CONSTANTS Emails, Codes, Tokens, Threads, None,
          CodeLife,      \* CODE_TTL_SECONDS
          MaxAttempts,   \* MAX_VERIFY_ATTEMPTS
          RateLimit,     \* RATE_LIMIT_REQUESTS
          RateWindow,    \* RATE_LIMIT_WINDOW_SECONDS
          SessionLife,   \* SAAS_SESSION_TTL_HOURS
          MaxIssues      \* bound on codes issued, for model checking

ASSUME LifeAssumption ==
  /\ {CodeLife, MaxAttempts, RateLimit, RateWindow, SessionLife} \subseteq Nat \ {0}
  /\ MaxIssues \in Nat

ASSUME IdsAssumption ==
  /\ IsFiniteSet(Threads) /\ Threads # {}
  /\ None \notin [code : Codes, issue : Nat, left : Nat, attempts : Nat]

VARIABLES
  codes,     \* pending codes by address
  recent,    \* what is left of the window of each request, by address
  users, sessions,
  thread,    \* the requests in progress
  issued,    \* history: number of codes made
  compared   \* history: how often each code was compared with a submitted one

authVars == <<codes, recent, users, sessions, thread, issued, compared>>

Idle == [pc |-> "idle", email |-> None, code |-> None, pending |-> None]
Issues == 1..MaxIssues
Pending == [code : Codes, issue : Issues, left : 0..CodeLife,
            attempts : 0..(MaxAttempts + Cardinality(Threads))]
Session == [email : Emails, left : 0..SessionLife]

AuthInit ==
  /\ codes = [e \in Emails |-> None] /\ recent = [e \in Emails |-> <<>>]
  /\ users = {} /\ sessions = [t \in Tokens |-> None]
  /\ thread = [h \in Threads |-> Idle]
  /\ issued = 0 /\ compared = [i \in Issues |-> 0]

Drop(e) == codes' = [codes EXCEPT ![e] = None]      \* delete_code
Do(h, next) == thread' = [thread EXCEPT ![h] = next]
\* Later calls use the address only.
Proceed(h, pc) == Do(h, [Idle EXCEPT !.pc = pc, !.email = thread[h].email])
At(h, pc) == thread[h].pc = pc
-----------------------------------------------------------------------------
\* POST /auth/request-code: request_code.

allow_code_request(h, e) ==
  /\ At(h, "idle") /\ Len(recent[e]) < RateLimit
  /\ recent' = [recent EXCEPT ![e] = Append(@, RateWindow)]
  /\ Do(h, [Idle EXCEPT !.pc = "make", !.email = e])
  /\ UNCHANGED <<codes, users, sessions, issued, compared>>

set_code(h, c) ==
  /\ At(h, "make") /\ issued < MaxIssues
  /\ issued' = issued + 1
  /\ LET p == [code |-> c, issue |-> issued', left |-> CodeLife, attempts |-> 0]
     IN  /\ codes' = [codes EXCEPT ![thread[h].email] = p]
         /\ Proceed(h, "send")
  /\ UNCHANGED <<recent, users, sessions, compared>>

Sent(h) ==
  /\ At(h, "send") /\ Do(h, Idle)
  /\ UNCHANGED <<codes, recent, users, sessions, issued, compared>>

\* EmailDeliveryError: the code pending for the address is deleted, whosever
\* it is.
SendFails(h) ==
  /\ At(h, "send")
  /\ Drop(thread[h].email) /\ Do(h, Idle)
  /\ UNCHANGED <<recent, users, sessions, issued, compared>>
-----------------------------------------------------------------------------
\* POST /auth/verify: verify_code.

Usable(p) == p # None /\ p.left > 0

\* What verify_code still looks at of the code it has read.
Read(p) == [code |-> p.code, issue |-> p.issue]

get_code(h, e, c) ==
  /\ At(h, "idle")
  /\ Do(h, IF Usable(codes[e])
           THEN [pc |-> "bump", email |-> e, code |-> c, pending |-> Read(codes[e])]
           ELSE [Idle EXCEPT !.pc = "drop", !.email = e])
  /\ UNCHANGED <<codes, recent, users, sessions, issued, compared>>

\* bump_attempts counts on the code pending now and answers 0 when there is
\* none; the comparison is with the code read before.
Counted(h) == IF codes[thread[h].email] = None THEN 0
              ELSE codes[thread[h].email].attempts + 1
Bumped(e) == codes' = IF codes[e] = None THEN codes
                      ELSE [codes EXCEPT ![e].attempts = @ + 1]

Unlimited(h) == TRUE                                     \* mutant
WithinAttempts(h) == Counted(h) <= MaxAttempts

bump_attempts(h) ==
  /\ At(h, "bump") /\ Bumped(thread[h].email)
  /\ IF WithinAttempts(h)
     THEN /\ compared' = [compared EXCEPT ![thread[h].pending.issue] = @ + 1]
          /\ IF thread[h].pending.code = thread[h].code
             THEN Proceed(h, "use") ELSE Do(h, Idle)
     ELSE Proceed(h, "drop") /\ UNCHANGED compared
  /\ UNCHANGED <<recent, users, sessions, issued>>

\* The code is expired, absent or has had its attempts: 401.
Forget(h) ==
  /\ At(h, "drop") /\ Drop(thread[h].email) /\ Do(h, Idle)
  /\ UNCHANGED <<recent, users, sessions, issued, compared>>

UseCode(h) ==
  /\ At(h, "use") /\ Drop(thread[h].email) /\ Proceed(h, "user")
  /\ UNCHANGED <<recent, users, sessions, issued, compared>>

WithUser(h) == users \union {thread[h].email}

ensure_user(h) ==
  /\ At(h, "user") /\ users' = WithUser(h)
  /\ Proceed(h, "session")
  /\ UNCHANGED <<codes, recent, sessions, issued, compared>>

put_session(h, t) ==
  /\ At(h, "session") /\ sessions[t] = None
  /\ sessions' = [sessions EXCEPT ![t] =
       [email |-> thread[h].email, left |-> SessionLife]]
  /\ Do(h, Idle)
  /\ UNCHANGED <<codes, recent, users, issued, compared>>
-----------------------------------------------------------------------------
\* get_session deletes the session it finds expired.
expire_session(t) ==
  /\ sessions[t] # None /\ sessions[t].left = 0
  /\ sessions' = [sessions EXCEPT ![t] = None]
  /\ UNCHANGED <<codes, recent, users, thread, issued, compared>>

logout(t) ==
  /\ sessions[t] # None
  /\ sessions' = [sessions EXCEPT ![t] = None]
  /\ UNCHANGED <<codes, recent, users, thread, issued, compared>>

\* require_session: some live session is of this address.
SignedIn(e) == \E t \in Tokens : /\ sessions[t] # None /\ sessions[t].left > 0
                                 /\ sessions[t].email = e

Less(n) == IF n = 0 THEN 0 ELSE n - 1
Aged(r) == IF r = None THEN None ELSE [r EXCEPT !.left = Less(@)]
\* The times still in the window, in their order: of each set of indices, the
\* k-th is the one with k - 1 of them before it.
Nth(kept, k) == CHOOSE i \in kept : Cardinality({j \in kept : j <= i}) = k
Later(times, kept) == [k \in 1..Cardinality(kept) |-> times[Nth(kept, k)] - 1]
WithinKept(times) == Later(times, DOMAIN times)          \* mutant
Within(times) == Later(times, {i \in DOMAIN times : times[i] > 1})

Tick ==
  /\ codes' = [e \in Emails |-> Aged(codes[e])]
  /\ recent' = [e \in Emails |-> Within(recent[e])]
  /\ sessions' = [t \in Tokens |-> Aged(sessions[t])]
  /\ UNCHANGED <<users, thread, issued, compared>>

\* The process stops and starts again: memory is empty, SQLite is kept.
Forgetful ==
  /\ codes' = [e \in Emails |-> None] /\ recent' = [e \in Emails |-> <<>>]
  /\ thread' = [h \in Threads |-> Idle]
  /\ UNCHANGED <<users, sessions, issued, compared>>

AuthStep ==
  \/ \E h \in Threads :
       \/ \E e \in Emails : allow_code_request(h, e)
       \/ \E c \in Codes : set_code(h, c)
       \/ Sent(h) \/ SendFails(h)
       \/ \E e \in Emails, c \in Codes : get_code(h, e, c)
       \/ bump_attempts(h) \/ Forget(h) \/ UseCode(h) \/ ensure_user(h)
       \/ \E t \in Tokens : put_session(h, t)
  \/ \E t \in Tokens : expire_session(t) \/ logout(t)
  \/ Tick

-----------------------------------------------------------------------------
AuthTypeOK ==
  /\ codes \in [Emails -> Pending \union {None}]
  /\ \A e \in Emails : /\ recent[e] \in Seq(1..RateWindow)
                       /\ Len(recent[e]) <= RateLimit
  /\ users \subseteq Emails
  /\ sessions \in [Tokens -> Session \union {None}]
  /\ \A h \in Threads :
       /\ thread[h].pc \in {"idle", "make", "send", "bump", "drop", "use",
                            "user", "session"}
       /\ thread[h].email \in Emails \union {None}
       /\ thread[h].code \in Codes \union {None}
       /\ thread[h].pending \in [code : Codes, issue : Issues] \union {None}
  /\ issued \in 0..MaxIssues /\ DOMAIN compared = Issues

(* "Codes die after 5 failed attempts" (auth.py:4): however the requests    *)
(* interleave, a code is compared at most that often, and once more by each *)
(* other request that had read it before it was dropped.                    *)
ComparisonsAreBounded ==
  \A i \in Issues : compared[i] <= MaxAttempts + Cardinality(Threads) - 1

(* "At most 5 failed attempts per code before invalidating it"              *)
(* (openspec/specs/saas-email-auth/spec.md:26).                             *)
(* Claimed, and not what the code does (README, section 3).                 *)
ComparisonsWithinLimit == \A i \in Issues : compared[i] <= MaxAttempts
=============================================================================
