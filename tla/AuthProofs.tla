----------------------------- MODULE AuthProofs ----------------------------
(***************************************************************************)
(* Proofs about Auth: any number of browsers, passwords, sessions and      *)
(* password changes.                                                       *)
(***************************************************************************)
EXTENDS Auth, FiniteSetTheorems, TLAPS

-----------------------------------------------------------------------------
\* The inductive invariant.

\* A change under way knows the new password; an idle browser has no request
\* context.
Context ==
    /\ \A b \in Browsers : pc[b] \in {"find_old", "verify_old"}
                              => chosen[b] \in Passwords
    /\ \A b \in Browsers : pc[b] = "idle" => who[b] = None

\* The browsers whose attempt to sign in is under way.
Attempting == {b \in Browsers : pc[b] \in {"find", "verify", "inactive"}}

\* Every attempt under way can still add one failure.
Budget ==
    failures + Cardinality(Attempting) < MaxFailures + Cardinality(Browsers)

\* Cookies hold ids that were issued, and an id issued once never returns.
Issued == \A b \in Browsers : cookie[b] # None => cookie[b] \in 1..created

\* A session that was not live when the request began is not live later.
StaysLate ==
    \A b \in Browsers :
        pc[b] = "session" =>
            /\ cookie[b] # None
            /\ late[b] => cookie[b] \notin Live \ expired

Known == Issued /\ StaysLate /\ SignedInThen

IInv == TypeOK /\ Context /\ OnlyNewSessions /\ Known /\ Budget

-----------------------------------------------------------------------------
\* Shapes, together with what is known of a request under way.
LEMMA TypeStep ==
    TypeOK /\ Context /\ [Next]_vars => TypeOK' /\ Context'
<1> SUFFICES ASSUME TypeOK /\ Context, [Next]_vars
             PROVE  TypeOK' /\ Context'
  OBVIOUS
<1> USE BoundsAssumption
<1> USE DEF TypeOK, Context, Labels, Live, 
           row, store, limiter, browser, locals
<1>1. ASSUME NEW b \in Browsers, NEW p \in Passwords, Login(b, p)
      PROVE  TypeOK' /\ Context'
  BY <1>1 DEF Login, Check, Goto
<1>2. ASSUME NEW b \in Browsers, Find(b)
      PROVE  TypeOK' /\ Context'
  BY <1>2 DEF Find, ReadUser, Goto
<1>3. ASSUME NEW b \in Browsers, WrongPassword(b)
      PROVE  TypeOK' /\ Context'
  BY <1>3 DEF WrongPassword, RecordFailure, Answer, Goto
<1>4. ASSUME NEW b \in Browsers, Inactive(b)
      PROVE  TypeOK' /\ Context'
  BY <1>4 DEF Inactive, Answer, Goto
<1>5. ASSUME NEW b \in Browsers, RightPassword(b)
      PROVE  TypeOK' /\ Context'
  BY <1>5 DEF RightPassword, RecordSuccess, Goto
<1>6. ASSUME NEW b \in Browsers, Sweep(b)
      PROVE  TypeOK' /\ Context'
  BY <1>6 DEF Sweep, Goto
<1>7. ASSUME NEW b \in Browsers, SignIn(b)
      PROVE  TypeOK' /\ Context'
  <2>1. created + 1 \in Ids /\ changes \in Nat /\ seen[b] \in Nat
    BY <1>7 DEF SignIn, CreateSession, Ids
  <2>2. sessions' \subseteq Sessions /\ created' \in 0..MaxSessions
    BY <1>7, <2>1 DEF SignIn, CreateSession, Sessions, Ids
  <2>3. cookie' \in [Browsers -> Ids \cup {None}]
    BY <1>7, <2>1 DEF SignIn, CreateSession
  <2>4. QED
    BY <1>7, <2>2, <2>3 DEF SignIn, CreateSession, Answer, Goto
<1>8. ASSUME NEW b \in Browsers, Request(b)
      PROVE  TypeOK' /\ Context'
  BY <1>8 DEF Request, Goto
<1>9. ASSUME NEW b \in Browsers, FindSession(b)
      PROVE  TypeOK' /\ Context'
  BY <1>9 DEF FindSession, Goto
<1>10. ASSUME NEW b \in Browsers, NoSession(b)
      PROVE  TypeOK' /\ Context'
  BY <1>10 DEF NoSession, Answer, Goto
<1>11. ASSUME NEW b \in Browsers, FindUser(b)
      PROVE  TypeOK' /\ Context'
  <2>1. CASE active
    BY <1>11, <2>1 DEF FindUser, Goto
  <2>2. CASE ~active
    <3>1. Answer(b) /\ UNCHANGED <<row, store, limiter, browser>>
      BY <1>11, <2>2 DEF FindUser
    <3>2. QED
      BY <3>1 DEF Answer, Goto
  <2>3. QED
    BY <2>1, <2>2
<1>12. ASSUME NEW b \in Browsers, Page(b)
      PROVE  TypeOK' /\ Context'
  BY <1>12 DEF Page, Answer, Goto
<1>13. ASSUME NEW b \in Browsers, CsrfFails(b)
      PROVE  TypeOK' /\ Context'
  BY <1>13 DEF CsrfFails, Answer, Goto
<1>14. ASSUME NEW b \in Browsers, Logout(b)
      PROVE  TypeOK' /\ Context'
  BY <1>14 DEF Logout, Posts, Answer, Goto
<1>15. ASSUME NEW b \in Browsers, ClearOthers(b)
      PROVE  TypeOK' /\ Context'
  BY <1>15 DEF ClearOthers, Posts, Answer, Goto
<1>16. ASSUME NEW b \in Browsers, NEW old \in Passwords, NEW new \in Passwords,
             Change(b, old, new)
      PROVE  TypeOK' /\ Context'
  BY <1>16 DEF Change, Posts, Goto
<1>17. ASSUME NEW b \in Browsers, FindOld(b)
      PROVE  TypeOK' /\ Context'
  BY <1>17 DEF FindOld, ReadUser, Goto
<1>18. ASSUME NEW b \in Browsers, OldPasswordWrong(b)
      PROVE  TypeOK' /\ Context'
  BY <1>18 DEF OldPasswordWrong, Answer, Goto
<1>19. ASSUME NEW b \in Browsers, SetPassword(b)
      PROVE  TypeOK' /\ Context'
  BY <1>19 DEF SetPassword, Goto
<1>20. ASSUME NEW b \in Browsers, Reissue(b)
      PROVE  TypeOK' /\ Context'
  <2>1. created + 1 \in Ids /\ changes \in Nat /\ seen[b] + 1 \in Nat
    BY <1>20 DEF Reissue, CreateSession, Ids
  <2>2. sessions' \subseteq Sessions /\ created' \in 0..MaxSessions
    BY <1>20, <2>1 DEF Reissue, CreateSession, Sessions, Ids
  <2>3. cookie' \in [Browsers -> Ids \cup {None}]
    BY <1>20, <2>1 DEF Reissue, CreateSession
  <2>4. QED
    BY <1>20, <2>2, <2>3 DEF Reissue, CreateSession, Answer, Goto
<1>21. ASSUME LockElapses
      PROVE  TypeOK' /\ Context'
  BY <1>21 DEF LockElapses
<1>22. ASSUME SetActive
      PROVE  TypeOK' /\ Context'
  BY <1>22 DEF SetActive
<1>23. ASSUME NEW i \in Ids, Expire(i)
      PROVE  TypeOK' /\ Context'
  BY <1>23 DEF Expire
<1>24. CASE UNCHANGED vars
  BY <1>24 DEF vars
<1>25. ASSUME NEW b \in Browsers, QueryFails(b)
      PROVE  TypeOK' /\ Context'
  BY <1>25 DEF QueryFails, Answer, Goto
<1>26. ASSUME NEW b \in Browsers, SweepFails(b)
      PROVE  TypeOK' /\ Context'
  BY <1>26 DEF SweepFails, Goto
<1>27. ASSUME NEW b \in Browsers, SignOutFails(b)
      PROVE  TypeOK' /\ Context'
  BY <1>27 DEF SignOutFails, Posts, Answer, Goto
<1>28. QED
  BY <1>1, <1>2, <1>3, <1>4, <1>5, <1>6, <1>7, <1>8, <1>9, <1>10,
     <1>11, <1>12, <1>13, <1>14, <1>15, <1>16, <1>17, <1>18, <1>19,
     <1>20, <1>21, <1>22, <1>23, <1>24, <1>25, <1>26, <1>27
  DEF Next, Handle

\* What OnlyNewSessions says is inductive by itself: a session is created with
\* the count of the moment, and that count only moves when none is left.
LEMMA NewSessionsStep ==
    OnlyNewSessions /\ [Next]_vars => OnlyNewSessions'
<1> SUFFICES ASSUME OnlyNewSessions, [Next]_vars
             PROVE  OnlyNewSessions'
  OBVIOUS
<1> USE DEF OnlyNewSessions, 
           row, store, limiter, browser, locals
<1>1. ASSUME NEW b \in Browsers, NEW p \in Passwords, Login(b, p)
      PROVE  OnlyNewSessions'
  BY <1>1 DEF Login, Check, Goto
<1>2. ASSUME NEW b \in Browsers, Find(b)
      PROVE  OnlyNewSessions'
  BY <1>2 DEF Find, ReadUser, Goto
<1>3. ASSUME NEW b \in Browsers, WrongPassword(b)
      PROVE  OnlyNewSessions'
  BY <1>3 DEF WrongPassword, RecordFailure, Answer, Goto
<1>4. ASSUME NEW b \in Browsers, Inactive(b)
      PROVE  OnlyNewSessions'
  BY <1>4 DEF Inactive, Answer, Goto
<1>5. ASSUME NEW b \in Browsers, RightPassword(b)
      PROVE  OnlyNewSessions'
  BY <1>5 DEF RightPassword, RecordSuccess, Goto
<1>6. ASSUME NEW b \in Browsers, Sweep(b)
      PROVE  OnlyNewSessions'
  BY <1>6 DEF Sweep, Goto
<1>7. ASSUME NEW b \in Browsers, SignIn(b)
      PROVE  OnlyNewSessions'
  BY <1>7 DEF SignIn, CreateSession, Answer, Goto
<1>8. ASSUME NEW b \in Browsers, Request(b)
      PROVE  OnlyNewSessions'
  BY <1>8 DEF Request, Goto
<1>9. ASSUME NEW b \in Browsers, FindSession(b)
      PROVE  OnlyNewSessions'
  BY <1>9 DEF FindSession, Goto
<1>10. ASSUME NEW b \in Browsers, NoSession(b)
      PROVE  OnlyNewSessions'
  BY <1>10 DEF NoSession, Answer, Goto
<1>11. ASSUME NEW b \in Browsers, FindUser(b)
      PROVE  OnlyNewSessions'
  BY <1>11 DEF FindUser, Answer, Goto
<1>12. ASSUME NEW b \in Browsers, Page(b)
      PROVE  OnlyNewSessions'
  BY <1>12 DEF Page, Answer, Goto
<1>13. ASSUME NEW b \in Browsers, CsrfFails(b)
      PROVE  OnlyNewSessions'
  BY <1>13 DEF CsrfFails, Answer, Goto
<1>14. ASSUME NEW b \in Browsers, Logout(b)
      PROVE  OnlyNewSessions'
  BY <1>14 DEF Logout, Posts, Answer, Goto
<1>15. ASSUME NEW b \in Browsers, ClearOthers(b)
      PROVE  OnlyNewSessions'
  BY <1>15 DEF ClearOthers, Posts, Answer, Goto
<1>16. ASSUME NEW b \in Browsers, NEW old \in Passwords, NEW new \in Passwords,
             Change(b, old, new)
      PROVE  OnlyNewSessions'
  BY <1>16 DEF Change, Posts, Goto
<1>17. ASSUME NEW b \in Browsers, FindOld(b)
      PROVE  OnlyNewSessions'
  BY <1>17 DEF FindOld, ReadUser, Goto
<1>18. ASSUME NEW b \in Browsers, OldPasswordWrong(b)
      PROVE  OnlyNewSessions'
  BY <1>18 DEF OldPasswordWrong, Answer, Goto
<1>19. ASSUME NEW b \in Browsers, SetPassword(b)
      PROVE  OnlyNewSessions'
  BY <1>19 DEF SetPassword, Goto
<1>20. ASSUME NEW b \in Browsers, Reissue(b)
      PROVE  OnlyNewSessions'
  BY <1>20 DEF Reissue, CreateSession, Answer, Goto
<1>21. ASSUME LockElapses
      PROVE  OnlyNewSessions'
  BY <1>21 DEF LockElapses
<1>22. ASSUME SetActive
      PROVE  OnlyNewSessions'
  BY <1>22 DEF SetActive
<1>23. ASSUME NEW i \in Ids, Expire(i)
      PROVE  OnlyNewSessions'
  BY <1>23 DEF Expire
<1>24. CASE UNCHANGED vars
  BY <1>24 DEF vars
<1>25. ASSUME NEW b \in Browsers, QueryFails(b)
      PROVE  OnlyNewSessions'
  BY <1>25 DEF QueryFails, Answer, Goto
<1>26. ASSUME NEW b \in Browsers, SweepFails(b)
      PROVE  OnlyNewSessions'
  BY <1>26 DEF SweepFails, Goto
<1>27. ASSUME NEW b \in Browsers, SignOutFails(b)
      PROVE  OnlyNewSessions'
  BY <1>27 DEF SignOutFails, Posts, Answer, Goto
<1>28. QED
  BY <1>1, <1>2, <1>3, <1>4, <1>5, <1>6, <1>7, <1>8, <1>9, <1>10,
     <1>11, <1>12, <1>13, <1>14, <1>15, <1>16, <1>17, <1>18, <1>19,
     <1>20, <1>21, <1>22, <1>23, <1>24, <1>25, <1>26, <1>27
  DEF Next, Handle

\* The session a request found was live when it began.
LEMMA LateStep ==
    TypeOK /\ Context /\ Known /\ [Next]_vars => Known'
<1> SUFFICES ASSUME TypeOK /\ Context /\ Known, [Next]_vars
             PROVE  Known'
  OBVIOUS
<1> USE BoundsAssumption
<1> USE DEF Known, Issued, StaysLate, SignedInThen, TypeOK, Context, Live, 
           row, store, limiter, browser, locals
<1>1. ASSUME NEW b \in Browsers, NEW p \in Passwords, Login(b, p)
      PROVE  Known'
  BY <1>1 DEF Login, Check, Goto
<1>2. ASSUME NEW b \in Browsers, Find(b)
      PROVE  Known'
  BY <1>2 DEF Find, ReadUser, Goto
<1>3. ASSUME NEW b \in Browsers, WrongPassword(b)
      PROVE  Known'
  BY <1>3 DEF WrongPassword, RecordFailure, Answer, Goto
<1>4. ASSUME NEW b \in Browsers, Inactive(b)
      PROVE  Known'
  BY <1>4 DEF Inactive, Answer, Goto
<1>5. ASSUME NEW b \in Browsers, RightPassword(b)
      PROVE  Known'
  BY <1>5 DEF RightPassword, RecordSuccess, Goto
<1>6. ASSUME NEW b \in Browsers, Sweep(b)
      PROVE  Known'
  BY <1>6 DEF Sweep, Goto
<1>7. ASSUME NEW b \in Browsers, SignIn(b)
      PROVE  Known'
  BY <1>7 DEF SignIn, CreateSession, Answer, Goto
<1>8. ASSUME NEW b \in Browsers, Request(b)
      PROVE  Known'
  BY <1>8 DEF Request, Goto
<1>9. ASSUME NEW b \in Browsers, FindSession(b)
      PROVE  Known'
  BY <1>9 DEF FindSession, Goto
<1>10. ASSUME NEW b \in Browsers, NoSession(b)
      PROVE  Known'
  BY <1>10 DEF NoSession, Answer, Goto
<1>11. ASSUME NEW b \in Browsers, FindUser(b)
      PROVE  Known'
  BY <1>11 DEF FindUser, Answer, Goto
<1>12. ASSUME NEW b \in Browsers, Page(b)
      PROVE  Known'
  BY <1>12 DEF Page, Answer, Goto
<1>13. ASSUME NEW b \in Browsers, CsrfFails(b)
      PROVE  Known'
  BY <1>13 DEF CsrfFails, Answer, Goto
<1>14. ASSUME NEW b \in Browsers, Logout(b)
      PROVE  Known'
  BY <1>14 DEF Logout, Posts, Answer, Goto
<1>15. ASSUME NEW b \in Browsers, ClearOthers(b)
      PROVE  Known'
  BY <1>15 DEF ClearOthers, Posts, Answer, Goto
<1>16. ASSUME NEW b \in Browsers, NEW old \in Passwords, NEW new \in Passwords,
             Change(b, old, new)
      PROVE  Known'
  BY <1>16 DEF Change, Posts, Goto
<1>17. ASSUME NEW b \in Browsers, FindOld(b)
      PROVE  Known'
  BY <1>17 DEF FindOld, ReadUser, Goto
<1>18. ASSUME NEW b \in Browsers, OldPasswordWrong(b)
      PROVE  Known'
  BY <1>18 DEF OldPasswordWrong, Answer, Goto
<1>19. ASSUME NEW b \in Browsers, SetPassword(b)
      PROVE  Known'
  BY <1>19 DEF SetPassword, Goto
<1>20. ASSUME NEW b \in Browsers, Reissue(b)
      PROVE  Known'
  BY <1>20 DEF Reissue, CreateSession, Answer, Goto
<1>21. ASSUME LockElapses
      PROVE  Known'
  BY <1>21 DEF LockElapses
<1>22. ASSUME SetActive
      PROVE  Known'
  BY <1>22 DEF SetActive
<1>23. ASSUME NEW i \in Ids, Expire(i)
      PROVE  Known'
  BY <1>23 DEF Expire
<1>24. CASE UNCHANGED vars
  BY <1>24 DEF vars
<1>25. ASSUME NEW b \in Browsers, QueryFails(b)
      PROVE  Known'
  BY <1>25 DEF QueryFails, Answer, Goto
<1>26. ASSUME NEW b \in Browsers, SweepFails(b)
      PROVE  Known'
  BY <1>26 DEF SweepFails, Goto
<1>27. ASSUME NEW b \in Browsers, SignOutFails(b)
      PROVE  Known'
  BY <1>27 DEF SignOutFails, Posts, Answer, Goto
<1>28. QED
  BY <1>1, <1>2, <1>3, <1>4, <1>5, <1>6, <1>7, <1>8, <1>9, <1>10,
     <1>11, <1>12, <1>13, <1>14, <1>15, <1>16, <1>17, <1>18, <1>19,
     <1>20, <1>21, <1>22, <1>23, <1>24, <1>25, <1>26, <1>27
  DEF Next, Handle

\* The attempts under way are some of the browsers'.
LEMMA AttemptingFinite ==
    /\ IsFiniteSet(Attempting)
    /\ Cardinality(Attempting) \in 0..Cardinality(Browsers)
    /\ Cardinality(Browsers) \in Nat
<1>1. Attempting \subseteq Browsers
  BY DEF Attempting
<1>2. QED
  BY <1>1, BrowsersAssumption, FS_Subset, FS_CardinalityType

\* An attempt that ends is one less.
LEMMA AttemptEnds ==
    ASSUME TypeOK, NEW b \in Attempting,
           pc' = [pc EXCEPT ![b] = pc'[b]], b \notin Attempting'
    PROVE  Cardinality(Attempting') = Cardinality(Attempting) - 1
<1>1. b \in Browsers /\ pc \in [Browsers -> Labels]
  BY DEF TypeOK, Attempting
<1>2. Attempting' = Attempting \ {b}
  BY <1>1 DEF Attempting
<1>3. QED
  BY <1>2, AttemptingFinite, FS_RemoveElement

\* Only an attempt under way adds a failure, and it ends by that.
LEMMA BudgetStep ==
    TypeOK /\ Budget /\ [Next]_vars => Budget'
<1> SUFFICES ASSUME TypeOK /\ Budget, [Next]_vars
             PROVE  Budget'
  OBVIOUS
<1> USE BoundsAssumption
<1> USE DEF TypeOK, Labels, 
           row, store, limiter, browser, locals
<1>1. ASSUME NEW b \in Browsers, NEW p \in Passwords, Login(b, p)
      PROVE  Budget'
  <2>1. failures < MaxFailures \/ failures' = 0
    BY <1>1 DEF Login, Check
  <2>2. failures' < MaxFailures /\ failures' \in Nat
    BY <1>1, <2>1, FailuresAssumption DEF Login, TypeOK
  <2>3. Cardinality(Attempting') \in 0..Cardinality(Browsers)
    <3>1. Attempting' \subseteq Browsers
      BY DEF Attempting
    <3>2. QED
      BY <3>1, BrowsersAssumption, FS_Subset, FS_CardinalityType
  <2>4. QED
    BY <2>2, <2>3, AttemptingFinite, FailuresAssumption DEF Budget
<1>2. ASSUME NEW b \in Browsers, Find(b)
      PROVE  Budget'
  <2>1. Attempting' = Attempting
    BY <1>2 DEF Find, ReadUser, Goto, Attempting
  <2>2. QED
    BY <1>2, <2>1 DEF Find, ReadUser, Goto, Budget
<1>3. ASSUME NEW b \in Browsers, WrongPassword(b)
      PROVE  Budget'
  <2>1. Cardinality(Attempting') = Cardinality(Attempting) - 1
    BY <1>3, AttemptEnds DEF WrongPassword, Answer, Goto, Attempting, TypeOK
  <2>2. failures' = failures + 1
    BY <1>3 DEF WrongPassword, RecordFailure
  <2>3. QED
    BY <2>1, <2>2, AttemptingFinite, FailuresAssumption DEF Budget, TypeOK
<1>4. ASSUME NEW b \in Browsers, Inactive(b)
      PROVE  Budget'
  <2>1. Cardinality(Attempting') = Cardinality(Attempting) - 1
    BY <1>4, AttemptEnds DEF Inactive, Answer, Goto, Attempting, TypeOK
  <2>2. failures' = failures
    BY <1>4 DEF Inactive, limiter
  <2>3. QED
    BY <2>1, <2>2, AttemptingFinite, FailuresAssumption DEF Budget, TypeOK
<1>5. ASSUME NEW b \in Browsers, RightPassword(b)
      PROVE  Budget'
  <2>1. Cardinality(Attempting') = Cardinality(Attempting) - 1
    BY <1>5, AttemptEnds DEF RightPassword, Goto, Attempting, TypeOK
  <2>2. failures' = 0
    BY <1>5 DEF RightPassword, RecordSuccess
  <2>3. QED
    BY <2>1, <2>2, AttemptingFinite, FailuresAssumption DEF Budget, TypeOK
<1>6. ASSUME NEW b \in Browsers, Sweep(b)
      PROVE  Budget'
  <2>1. Attempting' = Attempting
    BY <1>6 DEF Sweep, Goto, Attempting
  <2>2. QED
    BY <1>6, <2>1 DEF Sweep, Goto, Budget
<1>7. ASSUME NEW b \in Browsers, SignIn(b)
      PROVE  Budget'
  <2>1. Attempting' = Attempting
    BY <1>7 DEF SignIn, CreateSession, Answer, Goto, Attempting
  <2>2. QED
    BY <1>7, <2>1 DEF SignIn, CreateSession, Answer, Goto, Budget
<1>8. ASSUME NEW b \in Browsers, Request(b)
      PROVE  Budget'
  <2>1. Attempting' = Attempting
    BY <1>8 DEF Request, Goto, Attempting
  <2>2. QED
    BY <1>8, <2>1 DEF Request, Goto, Budget
<1>9. ASSUME NEW b \in Browsers, FindSession(b)
      PROVE  Budget'
  <2>1. Attempting' = Attempting
    BY <1>9 DEF FindSession, Goto, Attempting
  <2>2. QED
    BY <1>9, <2>1 DEF FindSession, Goto, Budget
<1>10. ASSUME NEW b \in Browsers, NoSession(b)
      PROVE  Budget'
  <2>1. Attempting' = Attempting
    BY <1>10 DEF NoSession, Answer, Goto, Attempting
  <2>2. QED
    BY <1>10, <2>1 DEF NoSession, Answer, Goto, Budget
<1>11. ASSUME NEW b \in Browsers, FindUser(b)
      PROVE  Budget'
  <2>1. Attempting' = Attempting
    <3>1. pc[b] = "user" /\ pc' \in {[pc EXCEPT ![b] = "handle"],
                                    [pc EXCEPT ![b] = "idle"]}
      BY <1>11 DEF FindUser, Answer, Goto
    <3>2. QED
      BY <3>1 DEF Attempting
  <2>2. QED
    BY <1>11, <2>1 DEF FindUser, Budget
<1>12. ASSUME NEW b \in Browsers, Page(b)
      PROVE  Budget'
  <2>1. Attempting' = Attempting
    BY <1>12 DEF Page, Answer, Goto, Attempting
  <2>2. QED
    BY <1>12, <2>1 DEF Page, Answer, Goto, Budget
<1>13. ASSUME NEW b \in Browsers, CsrfFails(b)
      PROVE  Budget'
  <2>1. Attempting' = Attempting
    BY <1>13 DEF CsrfFails, Answer, Goto, Attempting
  <2>2. QED
    BY <1>13, <2>1 DEF CsrfFails, Answer, Goto, Budget
<1>14. ASSUME NEW b \in Browsers, Logout(b)
      PROVE  Budget'
  <2>1. Attempting' = Attempting
    BY <1>14 DEF Logout, Posts, Answer, Goto, Attempting
  <2>2. QED
    BY <1>14, <2>1 DEF Logout, Posts, Answer, Goto, Budget
<1>15. ASSUME NEW b \in Browsers, ClearOthers(b)
      PROVE  Budget'
  <2>1. Attempting' = Attempting
    BY <1>15 DEF ClearOthers, Posts, Answer, Goto, Attempting
  <2>2. QED
    BY <1>15, <2>1 DEF ClearOthers, Posts, Answer, Goto, Budget
<1>16. ASSUME NEW b \in Browsers, NEW old \in Passwords, NEW new \in Passwords,
             Change(b, old, new)
      PROVE  Budget'
  <2>1. Attempting' = Attempting
    BY <1>16 DEF Change, Posts, Goto, Attempting
  <2>2. QED
    BY <1>16, <2>1 DEF Change, Posts, Goto, Budget
<1>17. ASSUME NEW b \in Browsers, FindOld(b)
      PROVE  Budget'
  <2>1. Attempting' = Attempting
    BY <1>17 DEF FindOld, ReadUser, Goto, Attempting
  <2>2. QED
    BY <1>17, <2>1 DEF FindOld, ReadUser, Goto, Budget
<1>18. ASSUME NEW b \in Browsers, OldPasswordWrong(b)
      PROVE  Budget'
  <2>1. Attempting' = Attempting
    BY <1>18 DEF OldPasswordWrong, Answer, Goto, Attempting
  <2>2. QED
    BY <1>18, <2>1 DEF OldPasswordWrong, Answer, Goto, Budget
<1>19. ASSUME NEW b \in Browsers, SetPassword(b)
      PROVE  Budget'
  <2>1. Attempting' = Attempting
    BY <1>19 DEF SetPassword, Goto, Attempting
  <2>2. QED
    BY <1>19, <2>1 DEF SetPassword, Goto, Budget
<1>20. ASSUME NEW b \in Browsers, Reissue(b)
      PROVE  Budget'
  <2>1. Attempting' = Attempting
    BY <1>20 DEF Reissue, CreateSession, Answer, Goto, Attempting
  <2>2. QED
    BY <1>20, <2>1 DEF Reissue, CreateSession, Answer, Goto, Budget
<1>21. ASSUME LockElapses
      PROVE  Budget'
  <2>1. Attempting' = Attempting
    BY <1>21 DEF LockElapses, Attempting
  <2>2. QED
    BY <1>21, <2>1 DEF LockElapses, Budget
<1>22. ASSUME SetActive
      PROVE  Budget'
  <2>1. Attempting' = Attempting
    BY <1>22 DEF SetActive, Attempting
  <2>2. QED
    BY <1>22, <2>1 DEF SetActive, Budget
<1>23. ASSUME NEW i \in Ids, Expire(i)
      PROVE  Budget'
  <2>1. Attempting' = Attempting
    BY <1>23 DEF Expire, Attempting
  <2>2. QED
    BY <1>23, <2>1 DEF Expire, Budget
<1>24. CASE UNCHANGED vars
  <2>1. Attempting' = Attempting
    BY <1>24 DEF vars, Attempting
  <2>2. QED
    BY <1>24, <2>1 DEF vars, Budget
<1>25. ASSUME NEW b \in Browsers, QueryFails(b)
      PROVE  Budget'
  <2>1. CASE pc[b] = "find"
    <3>1. Cardinality(Attempting') = Cardinality(Attempting) - 1
      BY <1>25, <2>1, AttemptEnds DEF QueryFails, Answer, Goto, Attempting, TypeOK
    <3>2. QED
      BY <1>25, <3>1, AttemptingFinite, FailuresAssumption DEF QueryFails, Budget, TypeOK
  <2>2. CASE pc[b] # "find"
    <3>1. Attempting' = Attempting
      BY <1>25, <2>2 DEF QueryFails, Answer, Goto, Attempting
    <3>2. QED
      BY <1>25, <3>1 DEF QueryFails, Budget
  <2>3. QED
    BY <2>1, <2>2
<1>26. ASSUME NEW b \in Browsers, SweepFails(b)
      PROVE  Budget'
  <2>1. Attempting' = Attempting
    BY <1>26 DEF SweepFails, Goto, Attempting
  <2>2. QED
    BY <1>26, <2>1 DEF SweepFails, Goto, Budget
<1>27. ASSUME NEW b \in Browsers, SignOutFails(b)
      PROVE  Budget'
  <2>1. Attempting' = Attempting
    BY <1>27 DEF SignOutFails, Posts, Answer, Goto, Attempting
  <2>2. QED
    BY <1>27, <2>1 DEF SignOutFails, Posts, Answer, Goto, Budget
<1>28. QED
  BY <1>1, <1>2, <1>3, <1>4, <1>5, <1>6, <1>7, <1>8, <1>9, <1>10,
     <1>11, <1>12, <1>13, <1>14, <1>15, <1>16, <1>17, <1>18, <1>19,
     <1>20, <1>21, <1>22, <1>23, <1>24, <1>25, <1>26, <1>27
  DEF Next, Handle

\* What OldFormsRefused says of a step.
NoOldForm ==
    \A b \in Browsers :
        pc[b] = "handle" /\ pc'[b] # "handle" /\ form[b] # who[b]
            => UNCHANGED <<row, store, cookie>> /\ pc'[b] = "idle"

\* A browser that holds an old form gets an answer and nothing else.
LEMMA FormStep ==
    TypeOK /\ [Next]_vars => NoOldForm
<1> SUFFICES ASSUME TypeOK, [Next]_vars
             PROVE  NoOldForm
  OBVIOUS
<1> USE BoundsAssumption
<1> USE DEF NoOldForm, TypeOK, Labels, 
           row, store, limiter, browser, locals
<1>1. ASSUME NEW b \in Browsers, NEW p \in Passwords, Login(b, p)
      PROVE  NoOldForm
  BY <1>1 DEF Login, Check, Goto
<1>2. ASSUME NEW b \in Browsers, Find(b)
      PROVE  NoOldForm
  BY <1>2 DEF Find, ReadUser, Goto
<1>3. ASSUME NEW b \in Browsers, WrongPassword(b)
      PROVE  NoOldForm
  BY <1>3 DEF WrongPassword, RecordFailure, Answer, Goto
<1>4. ASSUME NEW b \in Browsers, Inactive(b)
      PROVE  NoOldForm
  BY <1>4 DEF Inactive, Answer, Goto
<1>5. ASSUME NEW b \in Browsers, RightPassword(b)
      PROVE  NoOldForm
  BY <1>5 DEF RightPassword, RecordSuccess, Goto
<1>6. ASSUME NEW b \in Browsers, Sweep(b)
      PROVE  NoOldForm
  BY <1>6 DEF Sweep, Goto
<1>7. ASSUME NEW b \in Browsers, SignIn(b)
      PROVE  NoOldForm
  BY <1>7 DEF SignIn, CreateSession, Answer, Goto
<1>8. ASSUME NEW b \in Browsers, Request(b)
      PROVE  NoOldForm
  BY <1>8 DEF Request, Goto
<1>9. ASSUME NEW b \in Browsers, FindSession(b)
      PROVE  NoOldForm
  BY <1>9 DEF FindSession, Goto
<1>10. ASSUME NEW b \in Browsers, NoSession(b)
      PROVE  NoOldForm
  BY <1>10 DEF NoSession, Answer, Goto
<1>11. ASSUME NEW b \in Browsers, FindUser(b)
      PROVE  NoOldForm
  BY <1>11 DEF FindUser, Answer, Goto
<1>12. ASSUME NEW b \in Browsers, Page(b)
      PROVE  NoOldForm
  BY <1>12 DEF Page, Answer, Goto
<1>13. ASSUME NEW b \in Browsers, CsrfFails(b)
      PROVE  NoOldForm
  BY <1>13 DEF CsrfFails, Answer, Goto
<1>14. ASSUME NEW b \in Browsers, Logout(b)
      PROVE  NoOldForm
  BY <1>14 DEF Logout, Posts, Answer, Goto
<1>15. ASSUME NEW b \in Browsers, ClearOthers(b)
      PROVE  NoOldForm
  BY <1>15 DEF ClearOthers, Posts, Answer, Goto
<1>16. ASSUME NEW b \in Browsers, NEW old \in Passwords, NEW new \in Passwords,
             Change(b, old, new)
      PROVE  NoOldForm
  BY <1>16 DEF Change, Posts, Goto
<1>17. ASSUME NEW b \in Browsers, FindOld(b)
      PROVE  NoOldForm
  BY <1>17 DEF FindOld, ReadUser, Goto
<1>18. ASSUME NEW b \in Browsers, OldPasswordWrong(b)
      PROVE  NoOldForm
  BY <1>18 DEF OldPasswordWrong, Answer, Goto
<1>19. ASSUME NEW b \in Browsers, SetPassword(b)
      PROVE  NoOldForm
  BY <1>19 DEF SetPassword, Goto
<1>20. ASSUME NEW b \in Browsers, Reissue(b)
      PROVE  NoOldForm
  BY <1>20 DEF Reissue, CreateSession, Answer, Goto
<1>21. ASSUME LockElapses
      PROVE  NoOldForm
  BY <1>21 DEF LockElapses
<1>22. ASSUME SetActive
      PROVE  NoOldForm
  BY <1>22 DEF SetActive
<1>23. ASSUME NEW i \in Ids, Expire(i)
      PROVE  NoOldForm
  BY <1>23 DEF Expire
<1>24. CASE UNCHANGED vars
  BY <1>24 DEF vars
<1>25. ASSUME NEW b \in Browsers, QueryFails(b)
      PROVE  NoOldForm
  BY <1>25 DEF QueryFails, Answer, Goto
<1>26. ASSUME NEW b \in Browsers, SweepFails(b)
      PROVE  NoOldForm
  BY <1>26 DEF SweepFails, Goto
<1>27. ASSUME NEW b \in Browsers, SignOutFails(b)
      PROVE  NoOldForm
  BY <1>27 DEF SignOutFails, Posts, Answer, Goto
<1>28. QED
  BY <1>1, <1>2, <1>3, <1>4, <1>5, <1>6, <1>7, <1>8, <1>9, <1>10,
     <1>11, <1>12, <1>13, <1>14, <1>15, <1>16, <1>17, <1>18, <1>19,
     <1>20, <1>21, <1>22, <1>23, <1>24, <1>25, <1>26, <1>27
  DEF Next, Handle

-----------------------------------------------------------------------------
LEMMA InitInv == Init => IInv
<1> SUFFICES ASSUME Init PROVE IInv
  OBVIOUS
<1> USE DEF Init
<1>1. TypeOK /\ Context
  <2>1. /\ cookie \in [Browsers -> Ids \cup {None}]
        /\ form \in [Browsers -> Ids \cup {None}]
        /\ who \in [Browsers -> Ids \cup {None}]
    OBVIOUS
  <2>2. /\ typed \in [Browsers -> Passwords \cup {None}]
        /\ chosen \in [Browsers -> Passwords \cup {None}]
        /\ hash \in [Browsers -> Passwords \cup {None}]
    OBVIOUS
  <2>3. created \in 0..MaxSessions /\ changes \in 0..MaxChanges
    BY BoundsAssumption
  <2>4. /\ seen \in [Browsers -> 0..MaxChanges]
        /\ late \in [Browsers -> BOOLEAN]
        /\ pc \in [Browsers -> Labels]
    BY <2>3 DEF Labels
  <2>5. Context
    BY DEF Context
  <2>6. QED
    BY <2>1, <2>2, <2>3, <2>4, <2>5, PasswordAssumption DEF TypeOK
<1>2. OnlyNewSessions /\ Known
  BY DEF OnlyNewSessions, Known, Issued, StaysLate, SignedInThen
<1>3. Budget
  <2>1. Attempting = {}
    BY DEF Attempting
  <2>2. Cardinality(Attempting) = 0
    BY <2>1, FS_EmptySet
  <2>3. QED
    BY <2>2, AttemptingFinite, FailuresAssumption DEF Budget
<1>4. QED
  BY <1>1, <1>2, <1>3 DEF IInv

LEMMA StepInv == IInv /\ [Next]_vars => IInv'
BY TypeStep, NewSessionsStep, LateStep, BudgetStep DEF IInv

\* The inductive invariant.
THEOREM Inductive == Spec => []IInv
BY InitInv, StepInv, PTL DEF Spec

\* Every variable keeps its type.
THEOREM Typing == Spec => []TypeOK
<1>1. IInv => TypeOK
  BY DEF IInv
<1>2. QED
  BY <1>1, Inductive, PTL

\* No session outlives the password change it was created before: neither
\* set_password nor any login, logout or other change that runs at the same
\* time leaves one behind.
THEOREM NewSessions == Spec => []OnlyNewSessions
<1>1. IInv => OnlyNewSessions
  BY DEF IInv
<1>2. QED
  BY <1>1, Inductive, PTL

\* A handler runs for a session that was live when its request began.
THEOREM SignedIn == Spec => []SignedInThen
<1>1. IInv => SignedInThen
  BY DEF IInv, Known
<1>2. QED
  BY <1>1, Inductive, PTL

\* Concurrent attempts pass the threshold of the limiter by at most one for
\* each browser but one.
THEOREM Failures == Spec => []FailuresBounded
<1>1. IInv => FailuresBounded
  <2> SUFFICES ASSUME IInv PROVE FailuresBounded
    OBVIOUS
  <2>1. QED
    BY AttemptingFinite, FailuresAssumption
    DEF IInv, TypeOK, Budget, FailuresBounded
<1>2. QED
  BY <1>1, Inductive, PTL

\* A form rendered under another session than the request's has no effect.
THEOREM OldForms == Spec => OldFormsRefused
<1>1. TypeOK /\ [Next]_vars => [NoOldForm]_vars
  BY FormStep
<1>2. QED
  BY <1>1, Typing, PTL DEF Spec, OldFormsRefused, NoOldForm
=============================================================================
