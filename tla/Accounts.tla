------------------------------ MODULE Accounts ------------------------------
(***************************************************************************)
(* Account creation: users.go CreateAccount with the password of helper.go *)
(* and what the SDK does around it.  It sits in no retry loop, the task it *)
(* is part of ends as non-retryable whatever the error, and the password   *)
(* is encrypted for its recipients only after the account exists.          *)
(***************************************************************************)
EXTENDS TestServer

CONSTANTS
    Attempts,           \* calls of CreateAccount
    Lengths             \* password lengths callers ask for

\* What the SDK's validation of a request lets through.
ASSUME LengthsAreValid == Lengths \subseteq 8..64

VARIABLE attempt        \* attempt[a]: where a is, and what it has done

\* password is the length of the generated one; made, a history variable,
\* the users its POST created; answer the user the POST was answered with.
AttemptRows ==
    [pc       : {"idle", "post", "deliver", "done"},
     named    : BOOLEAN,
     password : Nat,
     made     : SUBSET Ids,
     answer   : SUBSET Ids,
     outcome  : {"none", "ok", "turnedDown", "refused", "failed",
                 "answerLost", "undelivered"}]

NoAttempt == [pc |-> "idle", named |-> FALSE, password |-> 0,
              made |-> {}, answer |-> {}, outcome |-> "none"]

AttemptsInit == attempt = [a \in Attempts |-> NoAttempt]

\* What a caller may send: email and name as strings or not, an email that
\* is empty or not, the option Random Password with a length or another one.
Orders == [profile : {"full", "emptyEmail", "incomplete"},
           random  : BOOLEAN,
           length  : Lengths]

Min2(m, n) == IF m < n THEN m ELSE n

\* GenerateRandomPassword refuses fewer than 8 characters.  Without
\* constraints it puts in one of each kind, so isPasswordValid is content
\* with its first password and the 20 attempts are never needed.
MinPasswordLength == 8

\* The password generated for a requested length: at most 12 characters.
GeneratedLength(length) == Min2(12, length)

\* CreateAccount returns before it sends anything.
TurnsDown(order) ==
    \/ order.profile = "incomplete"
    \/ ~order.random
    \/ GeneratedLength(order.length) < MinPasswordLength

Moves(a, row) == attempt' = [attempt EXCEPT ![a] = row]

EndsAs(a, outcome) == Moves(a, [attempt[a] EXCEPT !.pc = "done", !.outcome = outcome])

BeginAttempt(a) ==
    /\ attempt[a].pc = "idle"
    /\ Counted
    /\ \E order \in Orders :
         \/ TurnsDown(order) /\ EndsAs(a, "turnedDown")
         \/ /\ ~TurnsDown(order)
            /\ Moves(a, [NoAttempt EXCEPT !.pc = "post",
                                          !.named = (order.profile = "full"),
                                          !.password = GeneratedLength(order.length)])
    /\ UNCHANGED <<userVars, memberVars, userRoles, permission, checked>>

\* A mutant of PostUser that sends the POST again when its answer is lost,
\* as the SDK does with a grant.
PostUserRetried(a) ==
    /\ attempt[a].pc = "post"
    /\ attempt[a].named
    /\ \E u \in Ids :
         /\ CreateUser(u)
         /\ Moves(a, [attempt[a] EXCEPT !.made = attempt[a].made \cup {u}])
    /\ UNCHANGED events

\* The POST is carried out; its answer arrives or is lost.
PostUser(a) ==
    /\ attempt[a].pc = "post"
    /\ attempt[a].named
    /\ \E u \in Ids :
         /\ CreateUser(u)
         /\ \/ Moves(a, [attempt[a] EXCEPT !.pc = "deliver", !.made = {u},
                                           !.answer = {u}])
            \/ Moves(a, [attempt[a] EXCEPT !.pc = "done", !.made = {u},
                                           !.outcome = "answerLost"])
    /\ UNCHANGED events

\* 400 for an empty username, or a request that fails and changes nothing.
PostFails(a) ==
    /\ attempt[a].pc = "post"
    /\ EndsAs(a, IF attempt[a].named THEN "failed" ELSE "refused")
    /\ UNCHANGED serverVars

\* The password is encrypted and handed over with the user, or the
\* recipients' keys are no good, which nothing looked at before.
Deliver(a) ==
    /\ attempt[a].pc = "deliver"
    /\ EndsAs(a, "ok") \/ EndsAs(a, "undelivered")
    /\ UNCHANGED serverVars

AttemptStep(a) == BeginAttempt(a) \/ PostUser(a) \/ PostFails(a) \/ Deliver(a)
=============================================================================
