--------------------------- MODULE AccountsProofs ---------------------------
(***************************************************************************)
(* One bonus for each user and always an administrator (Accounts), for any *)
(* users, founders and numbers of registrations and updates under way; a   *)
(* live token store and one live grant (Sessions), for any number of tabs, *)
(* of grants and of failed calls to Redis; one stream for a ticket         *)
(* (Tickets), for any tickets and any finite number of connections that    *)
(* are opening at a time.                                                  *)
(***************************************************************************)
EXTENDS Accounts, Sessions, Tickets, FiniteSetTheorems, TLAPS

(* Accounts.                                                               *)

Paying(u) == {f \in Form : form[f].at = "bonus" /\ form[f].user = u}

AccountsTyped ==
    /\ row \in [Account -> [role : Role, state : State] \cup {NoRow}]
    /\ bonus \in [Account -> Nat]
    /\ form \in [Form -> {Waiting} \cup [at : {"insert", "bonus"}, user : Account]]
    /\ patch \in [Patch -> {Waiting} \cup [at : {"load"}, actor : Account]
                           \cup [at : {"write"}, target : Account,
                                 role : Role \cup {"same"}, state : State \cup {"same"}]]

\* Rows stay: founders and the targets of writes have one.
Kept ==
    /\ \A u \in Founder : row[u] # NoRow
    /\ \A p \in Patch : patch[p].at = "write" => row[patch[p].target] # NoRow

\* The bonus of a user who is not a founder is not due yet, was cut off, is on
\* its way or was paid.
Owed(u) ==
    IF row[u] = NoRow \/ u \in cut
    THEN bonus[u] = 0 /\ Paying(u) = {}
    ELSE \/ bonus[u] = 1 /\ Paying(u) = {}
         \/ bonus[u] = 0 /\ \E f \in Form : Paying(u) = {f}

\* While an update is alone, an active administrator is left when it has been
\* written: the one who asked for it, who is not its target or leaves both the
\* role and the access as they are.
Left ==
    ~joined =>
        /\ \E u \in Account : ActiveAdmin(u)
        /\ \A p, q \in Patch : patch[p] # Waiting /\ patch[q] # Waiting => p = q
        /\ \A p \in Patch : patch[p].at = "load" => ActiveAdmin(patch[p].actor)
        /\ \A p \in Patch : patch[p].at = "write" =>
               \E u \in Account :
                   /\ ActiveAdmin(u)
                   /\ u = patch[p].target => patch[p].role = "same" /\ patch[p].state # "blocked"

AccountsInv ==
    /\ AccountsTyped
    /\ Kept
    /\ cut \subseteq {u \in Account : row[u] # NoRow}
    /\ \A u \in Account \ Founder : Owed(u)
    /\ Left

-----------------------------------------------------------------------------
LEMMA AccountsInitInv == AccountsInit => AccountsInv
<1> SUFFICES ASSUME AccountsInit PROVE AccountsInv
  OBVIOUS
<1>1. AccountsTyped /\ Kept
  BY AccountsAssumption DEF AccountsInit, AccountsTyped, Kept, NoRow, Role, State, Waiting
<1>2. ASSUME NEW u \in Account \ Founder PROVE Owed(u)
  BY DEF AccountsInit, Owed, Paying, Waiting
<1>3. \E u \in Account : ActiveAdmin(u)
  BY AccountsAssumption DEF AccountsInit, ActiveAdmin
<1>4. Left
  BY <1>3 DEF AccountsInit, Left, Waiting
<1> QED BY <1>1, <1>2, <1>4 DEF AccountsInit, AccountsInv

\* A registration moves to a place that is not "bonus", or from "insert" to it.
LEMMA FormLeaves ==
    ASSUME AccountsTyped, NEW f \in Form, NEW next, next.at # "bonus",
           form' = [form EXCEPT ![f] = next], NEW u
    PROVE  Paying(u)' = Paying(u) \ {f}
BY DEF AccountsTyped, Paying

LEMMA FormEnters ==
    ASSUME AccountsTyped, NEW f \in Form, form[f].at = "insert",
           form' = [form EXCEPT ![f].at = "bonus"], NEW u
    PROVE  Paying(u)' = IF form[f].user = u THEN Paying(u) \cup {f} ELSE Paying(u)
BY DEF AccountsTyped, Paying

\* Updates that change no row of a registered user, and no update, leave an
\* administrator.
LEMMA LeftStays ==
    ASSUME AccountsTyped, Left, UNCHANGED <<patch, joined>>,
           \A u \in Account : row[u] # NoRow => row'[u] = row[u]
    PROVE  Left'
<1>1. \A u \in Account : ActiveAdmin(u) => ActiveAdmin(u)'
  BY DEF ActiveAdmin, NoRow
<1>2. \A p \in Patch : patch[p].at = "load" => patch[p].actor \in Account
  BY DEF AccountsTyped, Waiting
<1> QED BY <1>1, <1>2 DEF Left

LEMMA RegisterInv ==
    ASSUME AccountsInv, NEW f \in Form,
           (\E u \in Account : CheckFree(f, u)) \/ InsertUser(f) \/ PayBonus(f) \/ CutShort(f)
    PROVE  AccountsInv'
<1> USE DEF AccountsInv
<1>1. ASSUME NEW u \in Account, CheckFree(f, u) PROVE AccountsInv'
  <2>1. /\ form[f] = Waiting /\ form' = [form EXCEPT ![f] = [at |-> "insert", user |-> u]]
        /\ UNCHANGED <<row, bonus, patch, cut, joined>>
    BY <1>1 DEF CheckFree
  <2>2. AccountsTyped' /\ Kept'
    BY <2>1 DEF AccountsTyped, Kept
  <2>3. ASSUME NEW v \in Account \ Founder PROVE Owed(v)'
    <3>1. f \notin Paying(v)
      BY <2>1 DEF Paying, Waiting
    <3>2. Paying(v)' = Paying(v) \ {f}
      BY <2>1, FormLeaves
    <3>3. Paying(v)' = Paying(v)
      BY <3>1, <3>2
    <3> QED BY <2>1, <3>3 DEF Owed
  <2>4. Left'
    BY <2>1, LeftStays
  <2> QED BY <2>1, <2>2, <2>3, <2>4
<1>2. ASSUME InsertUser(f) PROVE AccountsInv'
  <2> DEFINE u == form[f].user
             new == [role |-> "user", state |-> "active"]
  <2>1. form[f].at = "insert" /\ u \in Account /\ UNCHANGED <<bonus, patch, cut, joined>>
    BY <1>2 DEF InsertUser, AccountsTyped, Waiting
  <2>2. CASE row[u] = NoRow
    <3>1. row' = [row EXCEPT ![u] = new] /\ form' = [form EXCEPT ![f].at = "bonus"]
      BY <1>2, <2>2 DEF InsertUser
    <3>2. \A v \in Account : row[v] # NoRow => row'[v] = row[v]
      BY <2>1, <2>2, <3>1 DEF AccountsTyped
    <3>3. row'[u] # NoRow
      BY <2>1, <3>1 DEF AccountsTyped, NoRow
    <3>4. AccountsTyped'
      <4>1. row' \in [Account -> [role : Role, state : State] \cup {NoRow}]
        BY <3>1 DEF AccountsTyped, Role, State
      <4>2. form' \in [Form -> {Waiting} \cup [at : {"insert", "bonus"}, user : Account]]
        <5>1. [form[f] EXCEPT !.at = "bonus"] \in [at : {"insert", "bonus"}, user : Account]
          BY <2>1 DEF AccountsTyped, Waiting
        <5> QED BY <3>1, <5>1 DEF AccountsTyped
      <4> QED BY <2>1, <4>1, <4>2 DEF AccountsTyped
    <3>5. Kept'
      <4>1. ASSUME NEW v \in Account, row[v] # NoRow PROVE row'[v] # NoRow
        BY <3>2, <4>1
      <4>2. ASSUME NEW p \in Patch, patch[p].at = "write" PROVE patch[p].target \in Account
        BY <4>2 DEF AccountsTyped, Waiting
      <4> QED BY AccountsAssumption, <2>1, <4>1, <4>2 DEF Kept
    <3>6. ASSUME NEW v \in Account \ Founder PROVE Owed(v)'
      <4>1. CASE v = u
        <5>1. /\ bonus[v] = 0 /\ Paying(v)' = {f} /\ v \notin cut
          BY <2>1, <2>2, <3>1, <4>1, FormEnters DEF Owed
        <5> QED BY <2>1, <3>3, <4>1, <5>1 DEF Owed
      <4>2. CASE v # u
        <5>1. Paying(v)' = Paying(v) /\ row'[v] = row[v]
          BY <2>1, <3>1, <4>2, FormEnters DEF AccountsTyped
        <5> QED BY <2>1, <5>1 DEF Owed
      <4> QED BY <4>1, <4>2
    <3>7. Left'
      BY <2>1, <3>2, LeftStays
    <3> QED BY <2>1, <3>2, <3>3, <3>4, <3>5, <3>6, <3>7
  <2>3. CASE row[u] # NoRow
    <3>1. form' = [form EXCEPT ![f] = Waiting] /\ row' = row
      BY <1>2, <2>3 DEF InsertUser
    <3>2. AccountsTyped' /\ Kept'
      BY <2>1, <3>1 DEF AccountsTyped, Kept
    <3>3. ASSUME NEW v \in Account \ Founder PROVE Owed(v)'
      <4>1. f \notin Paying(v)
        BY <2>1 DEF Paying
      <4>2. Paying(v)' = Paying(v) \ {f}
        BY <3>1, FormLeaves DEF Waiting
      <4>3. Paying(v)' = Paying(v)
        BY <4>1, <4>2
      <4> QED BY <2>1, <3>1, <4>3 DEF Owed
    <3>4. Left'
      BY <2>1, <3>1, LeftStays
    <3> QED BY <2>1, <3>1, <3>2, <3>3, <3>4
  <2> QED BY <2>2, <2>3
<1>3. ASSUME PayBonus(f) PROVE AccountsInv'
  <2> DEFINE u == form[f].user
  <2>1. /\ form[f].at = "bonus" /\ u \in Account
        /\ bonus' = [bonus EXCEPT ![u] = @ + 1] /\ form' = [form EXCEPT ![f] = Waiting]
        /\ UNCHANGED <<row, patch, cut, joined>>
    BY <1>3 DEF PayBonus, AccountsTyped, Waiting
  <2>2. AccountsTyped' /\ Kept'
    BY <2>1 DEF AccountsTyped, Kept
  <2>3. ASSUME NEW v \in Account \ Founder PROVE Owed(v)'
    <3>1. Paying(v)' = Paying(v) \ {f}
      BY <2>1, FormLeaves DEF Waiting
    <3>2. CASE v = u
      <4>1. f \in Paying(v)
        BY <2>1, <3>2 DEF Paying
      <4>2. /\ ~(row[v] = NoRow \/ v \in cut) /\ bonus[v] = 0
            /\ \E g \in Form : Paying(v) = {g}
        BY <4>1 DEF Owed
      <4> QED BY <2>1, <3>1, <3>2, <4>1, <4>2 DEF Owed, AccountsTyped
    <3>3. CASE v # u
      <4>1. f \notin Paying(v) /\ bonus'[v] = bonus[v]
        BY <2>1, <3>3 DEF Paying, AccountsTyped
      <4> QED BY <2>1, <3>1, <4>1 DEF Owed
    <3> QED BY <3>2, <3>3
  <2>4. Left'
    BY <2>1, LeftStays
  <2> QED BY <2>1, <2>2, <2>3, <2>4
<1>4. ASSUME CutShort(f) PROVE AccountsInv'
  <2> DEFINE u == form[f].user
  <2>1. /\ form[f].at \in {"insert", "bonus"} /\ u \in Account
        /\ form' = [form EXCEPT ![f] = Waiting]
        /\ cut' = IF form[f].at = "bonus" THEN cut \cup {u} ELSE cut
        /\ UNCHANGED <<row, bonus, patch, joined>>
    BY <1>4 DEF CutShort, AccountsTyped, Waiting
  <2>2. AccountsTyped' /\ Kept'
    BY <2>1 DEF AccountsTyped, Kept
  <2>3. ASSUME NEW v \in Account \ Founder PROVE Owed(v)'
    <3>1. Paying(v)' = Paying(v) \ {f}
      BY <2>1, FormLeaves DEF Waiting
    <3>2. CASE f \in Paying(v)
      <4>1. v = u /\ form[f].at = "bonus"
        BY <3>2 DEF Paying
      <4>2. bonus[v] = 0 /\ \E g \in Form : Paying(v) = {g}
        BY <3>2 DEF Owed
      <4> QED BY <2>1, <3>1, <3>2, <4>1, <4>2 DEF Owed
    <3>3. CASE f \notin Paying(v)
      <4>1. v \in cut' <=> v \in cut
        BY <2>1, <3>3 DEF Paying
      <4> QED BY <2>1, <3>1, <3>3, <4>1 DEF Owed
    <3> QED BY <3>2, <3>3
  <2>4. cut' \subseteq {v \in Account : row'[v] # NoRow}
    <3>1. CASE form[f].at = "bonus" /\ u \notin Founder
      BY <2>1, <3>1 DEF Owed, Paying
    <3> QED BY <2>1, <3>1 DEF Kept
  <2>5. Left'
    BY <2>1, LeftStays
  <2> QED BY <2>1, <2>2, <2>3, <2>4, <2>5
<1> QED BY <1>1, <1>2, <1>3, <1>4

\* Updates leave what is owed as it is, as long as they leave rows.
LEMMA OwedStays ==
    ASSUME NEW u \in Account, Owed(u), UNCHANGED <<bonus, form, cut>>,
           row'[u] = NoRow <=> row[u] = NoRow
    PROVE  Owed(u)'
BY DEF Owed, Paying

LEMMA UpdateInv ==
    ASSUME AccountsInv, NEW p \in Patch,
           \/ \E u \in Account : AdmitAdmin(p, u)
           \/ \E u \in Account, c \in Change : LoadTarget(p, u, c)
           \/ WriteTarget(p)
    PROVE  AccountsInv'
<1> USE DEF AccountsInv
<1>1. ASSUME NEW u \in Account, AdmitAdmin(p, u) PROVE AccountsInv'
  <2>1. /\ patch[p] = Waiting /\ ActiveAdmin(u)
        /\ patch' = [patch EXCEPT ![p] = [at |-> "load", actor |-> u]]
        /\ joined' = (\E q \in Patch : patch[q] # Waiting)
        /\ UNCHANGED <<row, bonus, form, cut>>
    BY <1>1 DEF AdmitAdmin
  <2>2. AccountsTyped' /\ Kept'
    BY <2>1 DEF AccountsTyped, Kept
  <2>3. Left'
    <3> SUFFICES ASSUME ~joined' PROVE Left'
      BY DEF Left
    <3>1. \A q \in Patch : q # p => patch'[q] = Waiting
      BY <2>1 DEF AccountsTyped
    <3>2. patch'[p] = [at |-> "load", actor |-> u] /\ ActiveAdmin(u)'
      BY <2>1 DEF AccountsTyped, ActiveAdmin
    <3> QED BY <3>1, <3>2 DEF Left, Waiting
  <2> QED BY <2>1, <2>2, <2>3, OwedStays
<1>2. ASSUME NEW u \in Account, NEW c \in Change, LoadTarget(p, u, c) PROVE AccountsInv'
  <2> DEFINE old == row[u]
             write == [at |-> "write", target |-> u,
                       role |-> IF c.role = old.role THEN "same" ELSE c.role,
                       state |-> IF c.state = old.state THEN "same" ELSE c.state]
  <2>1. /\ patch[p].at = "load" /\ UNCHANGED <<row, bonus, form, cut, joined>>
        /\ patch[p] # Waiting /\ patch[p].actor \in Account
    BY <1>2 DEF LoadTarget, AccountsTyped, Waiting
  <2>2. CASE patch' = [patch EXCEPT ![p] = Waiting]
    <3>1. AccountsTyped' /\ Kept'
      BY <2>1, <2>2 DEF AccountsTyped, Kept, Waiting
    <3>2. Left'
      <4>1. \A q \in Patch : patch'[q] # Waiting => patch'[q] = patch[q]
        BY <2>2 DEF AccountsTyped
      <4> QED BY <2>1, <4>1 DEF Left, ActiveAdmin, Waiting
    <3> QED BY <2>1, <3>1, <3>2, OwedStays
  <2>3. CASE /\ old # NoRow /\ ~Bars(patch[p].actor, u, c)
             /\ patch' = [patch EXCEPT ![p] = write]
    <3>1. write \in [at : {"write"}, target : Account,
                     role : Role \cup {"same"}, state : State \cup {"same"}]
      BY DEF Change
    <3>2. patch'[p] = write /\ \A q \in Patch : q # p => patch'[q] = patch[q]
      BY <2>3 DEF AccountsTyped
    <3>3. AccountsTyped' /\ Kept'
      BY <2>1, <2>3, <3>1, <3>2 DEF AccountsTyped, Kept
    <3>4. Left'
      <4> SUFFICES ASSUME ~joined PROVE Left'
        BY <2>1 DEF Left
      <4>1. ActiveAdmin(patch[p].actor)
        BY <2>1 DEF Left
      <4>2. \A q \in Patch : q # p => patch'[q] = Waiting
        BY <2>1, <3>2 DEF Left
      <4>3. u = patch[p].actor => write.role = "same" /\ write.state # "blocked"
        BY <2>3 DEF Bars
      <4> HIDE DEF write
      <4>4. write.at = "write" /\ write.target = u
        BY DEF write
      <4> QED BY <2>1, <3>2, <4>1, <4>2, <4>3, <4>4 DEF Left, ActiveAdmin, Waiting
    <3> QED BY <2>1, <3>3, <3>4, OwedStays
  <2> QED BY <1>2, <2>2, <2>3 DEF LoadTarget
<1>3. ASSUME WriteTarget(p) PROVE AccountsInv'
  <2> DEFINE w == patch[p]
             new == [role  |-> IF w.role = "same" THEN row[w.target].role ELSE w.role,
                     state |-> IF w.state = "same" THEN row[w.target].state ELSE w.state]
  <2>1. /\ w.at = "write" /\ row' = [row EXCEPT ![w.target] = new]
        /\ patch' = [patch EXCEPT ![p] = Waiting]
        /\ UNCHANGED <<bonus, form, cut, joined>>
    BY <1>3 DEF WriteTarget
  <2>2. w.target \in Account /\ w.role \in Role \cup {"same"} /\ w.state \in State \cup {"same"}
    BY <2>1 DEF AccountsTyped, Waiting
  <2>3. row[w.target] \in [role : Role, state : State]
    BY <2>1, <2>2 DEF AccountsTyped, Kept
  <2>4. new \in [role : Role, state : State]
    BY <2>2, <2>3
  <2>5. new # NoRow
    BY <2>4 DEF NoRow, Role, State
  <2>6. /\ row'[w.target] = new
        /\ \A v \in Account : v # w.target => row'[v] = row[v]
        /\ \A q \in Patch : patch'[q] # Waiting => q # p /\ patch'[q] = patch[q]
    BY <2>1, <2>2 DEF AccountsTyped
  <2> HIDE DEF new
  <2>7. \A v \in Account : row'[v] = NoRow <=> row[v] = NoRow
    BY <2>3, <2>5, <2>6 DEF NoRow, Role, State
  <2>8. AccountsTyped'
    BY <2>1, <2>4 DEF AccountsTyped
  <2>9. Kept'
    <3>1. \A q \in Patch : patch'[q].at = "write" =>
              patch'[q] = patch[q] /\ patch[q].target \in Account
      BY <2>6 DEF AccountsTyped, Waiting
    <3> QED BY AccountsAssumption, <2>7, <3>1 DEF Kept
  <2>10. Left'
    <3> SUFFICES ASSUME ~joined PROVE Left'
      BY <2>1 DEF Left
    <3>1. \A q \in Patch : patch'[q] = Waiting
      BY <2>1, <2>6 DEF Left, Waiting
    <3>2. PICK v \in Account :
              ActiveAdmin(v) /\ (v = w.target => w.role = "same" /\ w.state # "blocked")
      BY <2>1 DEF Left
    <3>3. ActiveAdmin(v)'
      <4>1. CASE v = w.target
        <5>1. new = [role |-> "admin", state |-> "active"]
          BY <2>2, <3>2, <4>1 DEF new, ActiveAdmin, State
        <5> QED BY <2>6, <4>1, <5>1 DEF ActiveAdmin
      <4>2. CASE v # w.target
        BY <2>6, <3>2, <4>2 DEF ActiveAdmin
      <4> QED BY <4>1, <4>2
    <3> QED BY <3>1, <3>3 DEF Left, Waiting
  <2> QED BY <2>1, <2>7, <2>8, <2>9, <2>10, OwedStays
<1> QED BY <1>1, <1>2, <1>3

LEMMA AccountsNextInv == AccountsInv /\ [AccountsNext]_accountVars => AccountsInv'
<1> SUFFICES ASSUME AccountsInv, [AccountsNext]_accountVars PROVE AccountsInv'
  OBVIOUS
<1>1. CASE UNCHANGED accountVars
  BY <1>1 DEF accountVars, AccountsInv, AccountsTyped, Kept, Owed, Paying, Left, ActiveAdmin
<1>2. CASE AccountsNext
  BY <1>2, RegisterInv, UpdateInv DEF AccountsNext
<1> QED BY <1>1, <1>2

-----------------------------------------------------------------------------
\* A registered user has its one bonus or the registration that is about to pay
\* it, unless that was cut short between its commits.
THEOREM OneBonus == AccountsSpec => []BonusOnce
<1>1. ASSUME AccountsInv PROVE BonusOnce
  <2> SUFFICES ASSUME NEW u \in Account \ Founder
               PROVE  IF row[u] = NoRow \/ u \in cut THEN bonus[u] = 0
                      ELSE bonus[u] + Cardinality(Paying(u)) = 1
    BY DEF BonusOnce, Paying
  <2>1. Owed(u)
    BY <1>1 DEF AccountsInv
  <2>2. Paying(u) = {} => Cardinality(Paying(u)) = 0
    BY FS_EmptySet
  <2>3. (\E f \in Form : Paying(u) = {f}) => Cardinality(Paying(u)) = 1
    BY FS_Singleton
  <2> QED BY <2>1, <2>2, <2>3 DEF Owed
<1> QED BY AccountsInitInv, AccountsNextInv, <1>1, PTL DEF AccountsSpec

\* Updates that do not overlap leave the exchange an administrator.
THEOREM AnAdminRemains == AccountsSpec => []AdminRemains
<1>1. AccountsInv => AdminRemains
  BY DEF AccountsInv, Left, AdminRemains
<1> QED BY AccountsInitInv, AccountsNextInv, <1>1, PTL DEF AccountsSpec

-----------------------------------------------------------------------------
(* Sessions.                                                               *)

Denied(g) == <<"refresh", g>> \in denied

Places == {"idle", "authorise", "401", "retry"} \cup Refreshing

SessionsTyped ==
    /\ issued \in Nat
    /\ store \in 0 .. issued
    /\ tab \in [Tab -> [at : Places, token : 0 .. issued, grant : 0 .. issued]]
    /\ leaving \in [at : {"idle", "refresh", "access"}, grant : 0 .. issued]
    /\ \A g : Denied(g) => g \in 1 .. issued

\* What a refresh or a logout is about is a grant.
Named ==
    /\ \A t \in Tab : tab[t].at \in {"check", "load", "rotate", "answer"} => tab[t].grant > 0
    /\ leaving.at # "idle" => leaving.grant > 0 /\ leaving.grant # store

\* StoreIsLive is not inductive: the grant an answer brings must be good when it
\* is stored.  It is, since nobody else has heard of it by then: it is not in the
\* store, so that no refresh and no logout can be about it, and no other answer
\* brings it.
Fresh ==
    \A t \in Tab : At(t, "answer") =>
        LET g == tab[t].token IN
        /\ g > 0
        /\ g # store
        /\ g # leaving.grant
        /\ ~Denied(g)
        /\ \A u \in Tab : tab[u].grant # g
        /\ \A u \in Tab \ {t} : At(u, "answer") => tab[u].token # g

SessionsInv == SessionsTyped /\ Named /\ Fresh /\ StoreIsLive

-----------------------------------------------------------------------------
LEMMA SessionsInitInv == SessionsInit => SessionsInv
BY DEF SessionsInit, SessionsInv, SessionsTyped, Named, Fresh, StoreIsLive, Denied, At, Places, Idle, Nobody

\* A grant that was just issued is new to all.
LEMMA NewGrant ==
    ASSUME SessionsTyped, Issue
    PROVE  /\ issued' = issued + 1
           /\ store # issued'
           /\ ~Denied(issued')
           /\ leaving.grant # issued'
           /\ \A t \in Tab : tab[t].token # issued' /\ tab[t].grant # issued'
BY DEF SessionsTyped, Issue

\* Denying a refresh token denies no other.
LEMMA Denies ==
    ASSUME NEW g, Deny("refresh", g)
    PROVE  \A h : Denied(h)' => Denied(h) \/ h = g
BY DEF Deny, Denied, Works, Fails

\* Steps that neither issue, store nor deny a grant, and bring no answer.
LEMMA TabMoves ==
    ASSUME SessionsInv, NEW t \in Tab, NEW next,
           next \in [at : Places \ {"answer"}, token : 0 .. issued, grant : 0 .. issued],
           next.at \in {"check", "load", "rotate"} => next.grant > 0,
           next.grant \in {0, tab[t].grant, store},
           tab' = [tab EXCEPT ![t] = next],
           ~At(t, "answer") \/ tab[t].grant \in dropped',
           dropped \subseteq dropped',
           UNCHANGED <<issued, denied, leaving>>, store' \in {store, 0}
    PROVE  SessionsInv'
<1>1. SessionsTyped'
  BY DEF SessionsInv, SessionsTyped, Denied
<1>2. Named'
  BY DEF SessionsInv, SessionsTyped, Named
<1>3. Fresh'
  BY DEF SessionsInv, SessionsTyped, Named, Fresh, At, Denied
<1>4. StoreIsLive'
  BY DEF SessionsInv, SessionsTyped, StoreIsLive, At, Denied
<1> QED BY <1>1, <1>2, <1>3, <1>4 DEF SessionsInv

LEMMA SessionsNextInv == SessionsInv /\ [SessionsNext]_sessionVars => SessionsInv'
<1> SUFFICES ASSUME SessionsInv, [SessionsNext]_sessionVars PROVE SessionsInv'
  OBVIOUS
<1>1. CASE UNCHANGED sessionVars
  BY <1>1 DEF sessionVars, SessionsInv, SessionsTyped, Named, Fresh, StoreIsLive, Denied, At
<1>2. ASSUME NEW t \in Tab, Login(t) PROVE SessionsInv'
  <2>1. /\ store' = issued' /\ tab' = tab /\ leaving' = leaving
        /\ dropped' = dropped /\ denied' = denied /\ Issue
    BY <1>2 DEF Login
  <2>2. SessionsTyped'
    BY <2>1, NewGrant DEF SessionsInv, SessionsTyped, Denied
  <2>3. Named' /\ Fresh'
    BY <2>1, NewGrant DEF SessionsInv, Named, Fresh, At, Denied
  <2>4. StoreIsLive'
    BY <2>1, NewGrant DEF SessionsInv, StoreIsLive, Denied
  <2> QED BY <2>2, <2>3, <2>4 DEF SessionsInv
<1>3. ASSUME NEW t \in Tab, Send(t) PROVE SessionsInv'
  <2> DEFINE next == [at |-> "authorise", token |-> store, grant |-> Nobody]
  <2>1. next \in [at : Places \ {"answer"}, token : 0 .. issued, grant : 0 .. issued]
    BY DEF SessionsInv, SessionsTyped, Places, Nobody
  <2> QED BY <1>3, <2>1, TabMoves DEF Send, server, history, At, Nobody
<1>4. ASSUME NEW t \in Tab, tab[t].at # "answer", NEW place \in Places \ {"answer"},
             TabGoes(t, place), place \in {"check", "load", "rotate"} => tab[t].grant > 0,
             UNCHANGED <<issued, denied, leaving, dropped, store>>
      PROVE  SessionsInv'
  <2> DEFINE next == [tab[t] EXCEPT !.at = place]
  <2>1. /\ next \in [at : Places \ {"answer"}, token : 0 .. issued, grant : 0 .. issued]
        /\ tab' = [tab EXCEPT ![t] = next]
        /\ next.at = place /\ next.grant = tab[t].grant
    BY <1>4 DEF SessionsInv, SessionsTyped, TabGoes
  <2> HIDE DEF next
  <2> QED BY <1>4, <2>1, TabMoves DEF At
<1>5. ASSUME NEW t \in Tab, tab' = [tab EXCEPT ![t] = Idle], store' \in {store, Nobody},
             ~At(t, "answer") \/ tab[t].grant \in dropped', dropped \subseteq dropped',
             UNCHANGED <<issued, denied, leaving>>
      PROVE  SessionsInv'
  <2>1. Idle \in [at : Places \ {"answer"}, token : 0 .. issued, grant : 0 .. issued]
    BY DEF SessionsInv, SessionsTyped, Places, Nobody, Idle
  <2> QED BY <1>5, <2>1, TabMoves DEF Idle, Nobody
<1>6. ASSUME NEW t \in Tab, Authorise(t) PROVE SessionsInv'
  <2>1. CASE tab' = [tab EXCEPT ![t] = Idle]
    BY <1>5, <1>6, <2>1 DEF Authorise, server, history, At
  <2>2. CASE TabGoes(t, IF At(t, "retry") THEN "refused" ELSE "401")
    BY <1>4, <1>6, <2>2 DEF Authorise, server, history, Places, Refreshing
  <2> QED BY <1>6, <2>1, <2>2 DEF Authorise
<1>7. ASSUME NEW t \in Tab, BeginRefresh(t) PROVE SessionsInv'
  <2>1. CASE store = Nobody
    BY <1>4, <1>7, <2>1 DEF BeginRefresh, server, At, Places, Refreshing
  <2>2. CASE store # Nobody
    <3> DEFINE next == [at |-> "check", token |-> Nobody, grant |-> store]
    <3>1. /\ next \in [at : Places \ {"answer"}, token : 0 .. issued, grant : 0 .. issued]
          /\ store > 0
      BY <2>2 DEF SessionsInv, SessionsTyped, Places, Refreshing, Nobody
    <3> QED BY <1>7, <2>2, <3>1, TabMoves DEF BeginRefresh, server, At
  <2> QED BY <2>1, <2>2
<1>8. ASSUME NEW t \in Tab, Check(t) PROVE SessionsInv'
  <2>1. tab[t].grant > 0
    BY <1>8 DEF Check, At, SessionsInv, Named
  <2> QED BY <1>4, <1>8, <2>1 DEF Check, server, history, At, Places, Refreshing
<1>9. ASSUME NEW t \in Tab, Load(t) PROVE SessionsInv'
  <2>1. tab[t].grant > 0
    BY <1>9 DEF Load, At, SessionsInv, Named
  <2> QED BY <1>4, <1>9, <2>1 DEF Load, server, history, At, Places, Refreshing
<1>10. ASSUME NEW t \in Tab, Rotate(t) PROVE SessionsInv'
  <2>1. /\ tab[t].at = "rotate" /\ Issue /\ Deny("refresh", tab[t].grant)
        /\ tab' = [tab EXCEPT ![t] = [at |-> "answer", token |-> issued', grant |-> tab[t].grant]]
        /\ store' = store /\ leaving' = leaving /\ dropped' = dropped
    BY <1>10 DEF Rotate, history, At
  <2>2. /\ tab'[t].at = "answer" /\ tab'[t].token = issued' /\ tab'[t].grant = tab[t].grant
        /\ \A u \in Tab \ {t} : tab'[u] = tab[u]
        /\ tab[t].grant \in 1 .. issued
    BY <2>1 DEF SessionsInv, SessionsTyped, Named
  <2>3. SessionsTyped'
    BY <2>1, <2>2, NewGrant, Denies DEF SessionsInv, SessionsTyped, Places, Refreshing
  <2>4. Named'
    BY <2>1, <2>2 DEF SessionsInv, Named
  <2>5. Fresh'
    <3>1. ASSUME NEW u \in Tab \ {t}, At(u, "answer")'
          PROVE  /\ At(u, "answer") /\ tab'[u].token = tab[u].token
                 /\ tab[u].token # issued' /\ tab[u].token # tab[t].grant
      BY <2>1, <2>2, <3>1, NewGrant DEF SessionsInv, Fresh, At
    <3>2. issued' > 0 /\ \A u \in Tab : tab'[u].grant = tab[u].grant
      BY <2>1, <2>2, NewGrant DEF SessionsInv, SessionsTyped
    <3>3. \A u \in Tab : tab'[u].grant # issued'
      BY <2>1, <3>2, NewGrant DEF SessionsInv
    <3>4. \A h : h # tab[t].grant /\ ~Denied(h) => ~Denied(h)'
      BY <2>1, Denies
    <3> QED BY <2>1, <2>2, <3>1, <3>2, <3>3, <3>4, NewGrant DEF SessionsInv, Fresh, At
  <2>6. StoreIsLive'
    BY <2>1, <2>2, Denies DEF SessionsInv, StoreIsLive, At, Denied
  <2> QED BY <2>3, <2>4, <2>5, <2>6 DEF SessionsInv
<1>11. ASSUME NEW t \in Tab, Answer(t) PROVE SessionsInv'
  <2>1. /\ tab[t].at = "answer" /\ store' = tab[t].token
        /\ tab' = [tab EXCEPT ![t] = [at |-> "retry", token |-> tab[t].token, grant |-> 0]]
        /\ UNCHANGED <<issued, denied, leaving, dropped>>
    BY <1>11 DEF Answer, server, history, At, Nobody
  <2>2. /\ tab'[t].at = "retry" /\ tab'[t].token = tab[t].token /\ tab'[t].grant = 0
        /\ \A u \in Tab \ {t} : tab'[u] = tab[u]
    BY <2>1 DEF SessionsInv, SessionsTyped, Nobody
  <2>3. SessionsTyped'
    <3>1. tab' \in [Tab -> [at : Places, token : 0 .. issued, grant : 0 .. issued]]
      BY <2>1 DEF SessionsInv, SessionsTyped, Places, Nobody
    <3>2. tab[t].token \in 0 .. issued
      BY DEF SessionsInv, SessionsTyped
    <3> QED BY <2>1, <3>1, <3>2 DEF SessionsInv, SessionsTyped, Denied
  <2>4. Named'
    BY <2>1, <2>2 DEF SessionsInv, Named, Fresh, At
  <2>5. Fresh'
    <3> DEFINE g == tab[t].token
    <3>1. ASSUME NEW u \in Tab \ {t}, At(u, "answer")'
          PROVE  /\ At(u, "answer") /\ tab'[u].token = tab[u].token
                 /\ tab[u].token # g /\ tab[u].token \in 1 .. issued
      BY <2>1, <2>2, <3>1 DEF SessionsInv, Fresh, At, SessionsTyped
    <3>2. ~At(t, "answer")'
      BY <2>2 DEF At
    <3> QED BY <2>1, <2>2, <3>1, <3>2 DEF SessionsInv, Fresh, At, Denied
  <2>6. StoreIsLive'
    BY <2>1 DEF SessionsInv, Fresh, StoreIsLive, At, Denied
  <2> QED BY <2>3, <2>4, <2>5, <2>6 DEF SessionsInv
<1>12. ASSUME NEW t \in Tab, Drop(t) PROVE SessionsInv'
  BY <1>5, <1>12 DEF Drop, server
<1>13. ASSUME NEW t \in Tab, GiveUp(t) PROVE SessionsInv'
  BY <1>5, <1>13 DEF GiveUp, server, At
<1>14. CASE Logout
  <2>1. /\ leaving' = [at |-> "refresh", grant |-> store] /\ store \in 1 .. issued
        /\ store' = 0 /\ UNCHANGED <<issued, denied, tab, dropped>>
    BY <1>14 DEF Logout, server, Nobody, SessionsInv, SessionsTyped
  <2>2. SessionsTyped'
    BY <2>1 DEF SessionsInv, SessionsTyped, Denied
  <2>3. Named' /\ Fresh'
    BY <2>1 DEF SessionsInv, Named, Fresh, At, Denied
  <2>4. StoreIsLive'
    BY <2>1 DEF SessionsInv, SessionsTyped, StoreIsLive, Denied
  <2> QED BY <2>2, <2>3, <2>4 DEF SessionsInv
<1>15. CASE DenyRefresh
  <2>1. /\ leaving.at = "refresh" /\ leaving' = [leaving EXCEPT !.at = "access"]
        /\ Deny("refresh", leaving.grant) /\ UNCHANGED <<issued, store, tab, dropped>>
    BY <1>15 DEF DenyRefresh, history
  <2>2. leaving'.grant = leaving.grant /\ leaving.grant \in 1 .. issued /\ leaving.grant # store
    BY <2>1 DEF SessionsInv, SessionsTyped, Named
  <2>3. SessionsTyped'
    BY <2>1, <2>2, Denies DEF SessionsInv, SessionsTyped
  <2>4. Named'
    BY <2>1, <2>2 DEF SessionsInv, Named
  <2>5. Fresh'
    BY <2>1, <2>2, Denies DEF SessionsInv, Fresh, At
  <2>6. StoreIsLive'
    BY <2>1, <2>2, Denies DEF SessionsInv, StoreIsLive, At, Denied
  <2> QED BY <2>3, <2>4, <2>5, <2>6 DEF SessionsInv
<1>16. CASE DenyAccess
  <2>1. /\ \A g : Denied(g)' <=> Denied(g)
        /\ leaving' = [at |-> "idle", grant |-> 0] /\ UNCHANGED <<issued, store, tab, dropped>>
    BY <1>16 DEF DenyAccess, Deny, Denied, Works, Fails, history, Nobody
  <2>2. SessionsTyped' /\ Named'
    BY <2>1 DEF SessionsInv, SessionsTyped, Named
  <2>3. Fresh'
    BY <2>1 DEF SessionsInv, Fresh, At
  <2>4. StoreIsLive'
    BY <2>1 DEF SessionsInv, StoreIsLive, At, Denied
  <2> QED BY <2>2, <2>3, <2>4 DEF SessionsInv
<1>17. CASE SetActive \/ \E g \in Grant : AccessExpires(g)
  <2>1. UNCHANGED <<issued, denied, store, tab, leaving, dropped>>
    BY <1>17 DEF SetActive, AccessExpires, history
  <2> QED BY <2>1 DEF SessionsInv, SessionsTyped, Named, Fresh, StoreIsLive, Denied, At
<1> QED
  BY <1>1, <1>2, <1>3, <1>6, <1>7, <1>8, <1>9, <1>10, <1>11, <1>12, <1>13, <1>14, <1>15,
     <1>16, <1>17 DEF SessionsNext

\* The browser's refresh token is refused only while the answer that replaces it
\* is on its way or after that was lost.
THEOREM StoreStaysLive == SessionsSpec => []StoreIsLive
<1>1. SessionsInv => StoreIsLive
  BY DEF SessionsInv
<1> QED BY SessionsInitInv, SessionsNextInv, <1>1, PTL DEF SessionsSpec

-----------------------------------------------------------------------------
Clean == ~crossed /\ misses = 0 /\ dropped = {}
Dead(g) == g \in expired \/ <<"access", g>> \in denied
Asking == {"check", "load", "rotate"}
Exchanging == Asking \cup {"answer"}

\* OneLiveGrant is not inductive: it is about moments when nothing is under way.
\* As long as nothing went wrong, grants are exchanged one by one and not during
\* a logout; the grant exchanged has a dead access token, or nobody had
\* refreshed; and it stays in the store until it is denied.
OneByOne ==
    /\ \A t, u \in Tab : tab[t].at \in Exchanging /\ tab[u].at \in Exchanging => t = u
    /\ \A t \in Tab : tab[t].at \in Exchanging => leaving.at = "idle" /\ Dead(tab[t].grant)
    /\ \A t \in Tab : tab[t].at \in Asking => store = tab[t].grant
    /\ \A t \in Tab : At(t, "answer") => Denied(tab[t].grant) /\ store \in {tab[t].grant, Nobody}
    /\ \A t \in Tab : At(t, "401") => Dead(tab[t].token)

\* Every grant but the one in the store is good for nothing, or a logout is about
\* to see to it, or it is the one that is on its way to the store.
Accounted ==
    /\ \A g \in 1 .. issued : Denied(g) => Dead(g) \/ leaving = [at |-> "access", grant |-> g]
    /\ \A g \in 1 .. issued :
           \/ g = store
           \/ Denied(g)
           \/ leaving = [at |-> "refresh", grant |-> g]
           \/ \E t \in Tab : At(t, "answer") /\ tab[t].token = g

Orderly == OneByOne /\ Accounted

LEMMA MissesCount ==
    ASSUME [SessionsNext]_sessionVars
    PROVE  /\ misses' = misses \/ misses' = misses + 1
           /\ dropped' = dropped \/ \E t \in Tab : dropped' = dropped \cup {tab[t].grant}
<1> USE DEF Works, Fails, history, server
<1>1. ASSUME NEW t \in Tab, Login(t) \/ Send(t) \/ BeginRefresh(t) \/ Load(t) \/ Answer(t) \/ GiveUp(t)
      PROVE  misses' = misses /\ dropped' = dropped
  BY <1>1 DEF Login, Send, BeginRefresh, Load, Answer, GiveUp
<1>2. ASSUME NEW t \in Tab, Authorise(t) \/ Check(t)
      PROVE  (misses' = misses \/ misses' = misses + 1) /\ dropped' = dropped
  BY <1>2 DEF Authorise, Check, Passes, Refused
<1>3. ASSUME NEW t \in Tab, Rotate(t)
      PROVE  (misses' = misses \/ misses' = misses + 1) /\ dropped' = dropped
  BY <1>3 DEF Rotate, Deny
<1>4. ASSUME NEW t \in Tab, Drop(t)
      PROVE  misses' = misses /\ dropped' = dropped \cup {tab[t].grant}
  BY <1>4 DEF Drop
<1>5. ASSUME DenyRefresh \/ DenyAccess
      PROVE  (misses' = misses \/ misses' = misses + 1) /\ dropped' = dropped
  BY <1>5 DEF DenyRefresh, DenyAccess, Deny
<1>6. ASSUME Logout \/ SetActive \/ \E g \in Grant : AccessExpires(g)
      PROVE  misses' = misses /\ dropped' = dropped
  BY <1>6 DEF Logout, SetActive, AccessExpires
<1>7. UNCHANGED sessionVars => misses' = misses /\ dropped' = dropped
  BY DEF sessionVars
<1> QED BY <1>1, <1>2, <1>3, <1>4, <1>5, <1>6, <1>7 DEF SessionsNext

\* Nothing that went wrong is forgotten.
LEMMA CleanBefore ==
    ASSUME [SessionsNext]_sessionVars, misses \in Nat, Clean'
    PROVE  Clean /\ misses' = misses /\ dropped' = dropped
<1>1. crossed => crossed'
  BY DEF SessionsNext, Login, Send, Authorise, BeginRefresh, Check, Load, Rotate, Answer, Drop,
         GiveUp, Logout, DenyRefresh, DenyAccess, SetActive, AccessExpires, history, sessionVars
<1>2. misses = 0 /\ misses' = misses
  BY MissesCount DEF Clean
<1>3. dropped = {} /\ dropped' = dropped
  BY MissesCount DEF Clean
<1> QED BY <1>1, <1>2, <1>3 DEF Clean

\* A step of one tab that brings no answer and begins no refresh.
LEMMA TabPasses ==
    ASSUME SessionsTyped, Orderly, NEW t \in Tab, NEW next,
           tab' = [tab EXCEPT ![t] = next],
           ~At(t, "answer"), next.at # "answer",
           next.at \in Asking => tab[t].at \in Asking /\ next.grant = tab[t].grant,
           next.at = "401" => Dead(next.token),
           UNCHANGED <<issued, denied, expired, leaving, store>>
    PROVE  Orderly'
<1>1. /\ tab'[t] = next
      /\ \A u \in Tab \ {t} : tab'[u] = tab[u]
  BY DEF SessionsTyped
<1>2. OneByOne'
  BY <1>1 DEF Orderly, OneByOne, At, Denied, Dead, Asking, Exchanging
<1>3. Accounted'
  BY <1>1 DEF Orderly, Accounted, At, Denied, Dead
<1> QED BY <1>2, <1>3 DEF Orderly

LEMMA OrderlyInit == SessionsInit => Orderly
BY DEF SessionsInit, Orderly, OneByOne, Accounted, Asking, Exchanging, Idle, At, Denied

LEMMA OrderlyNext ==
    ASSUME SessionsInv, Orderly, SessionsNext, Clean, Clean', misses' = misses, dropped' = dropped
    PROVE  Orderly'
<1> USE DEF Works, Fails
<1>0. SessionsTyped
  BY DEF SessionsInv
<1>1. ASSUME NEW t \in Tab, Login(t) PROVE Orderly'
  <2>1. /\ store' = issued' /\ Issue /\ store = Nobody
        /\ \A u \in Tab : tab[u].at \notin Refreshing
        /\ UNCHANGED <<denied, expired, tab, leaving>>
    BY <1>1 DEF Login, Clean
  <2>2. \A u \in Tab : tab[u].at \notin Exchanging
    BY <2>1 DEF Exchanging, Asking, Refreshing
  <2>3. OneByOne'
    BY <2>1, <2>2 DEF Orderly, OneByOne, Exchanging, Asking, At, Dead, Denied
  <2>4. Accounted'
    <3>1. issued' = issued + 1 /\ issued \in Nat /\ ~Denied(issued')
      BY <1>0, <2>1, NewGrant DEF SessionsTyped
    <3> QED BY <2>1, <2>2, <3>1 DEF Orderly, Accounted, Dead, Denied, At, Nobody, Exchanging
  <2> QED BY <2>3, <2>4 DEF Orderly
<1>2. ASSUME NEW t \in Tab, Send(t) PROVE Orderly'
  <2> DEFINE next == [at |-> "authorise", token |-> store, grant |-> Nobody]
  <2>1. /\ next.at = "authorise" /\ "authorise" \notin Asking
        /\ tab' = [tab EXCEPT ![t] = next] /\ ~At(t, "answer")
        /\ UNCHANGED <<issued, denied, expired, leaving, store>>
    BY <1>2 DEF Asking, Send, server, At
  <2> HIDE DEF next
  <2> QED BY <1>0, <2>1, TabPasses
<1>3. ASSUME NEW t \in Tab, NEW place, TabGoes(t, place), ~At(t, "answer"), place # "answer",
             place \in Asking => tab[t].at \in Asking,
             place = "401" => Dead(tab[t].token),
             UNCHANGED <<issued, denied, expired, leaving, store>>
      PROVE  Orderly'
  <2> DEFINE next == [tab[t] EXCEPT !.at = place]
  <2>1. /\ tab' = [tab EXCEPT ![t] = next] /\ next.at = place
        /\ next.grant = tab[t].grant /\ next.token = tab[t].token
    BY <1>0, <1>3 DEF SessionsTyped, TabGoes
  <2> HIDE DEF next
  <2> QED BY <1>0, <1>3, <2>1, TabPasses
<1>4. ASSUME NEW t \in Tab, tab' = [tab EXCEPT ![t] = Idle], ~At(t, "answer"),
             UNCHANGED <<issued, denied, expired, leaving, store>>
      PROVE  Orderly'
  <2>1. Idle.at = "idle" /\ "idle" \notin Asking
    BY DEF Idle, Asking
  <2> QED BY <1>0, <1>4, <2>1, TabPasses
<1>5. ASSUME NEW t \in Tab, Authorise(t) PROVE Orderly'
  <2>1. /\ ~At(t, "answer")
        /\ UNCHANGED <<issued, denied, expired, leaving, store>>
    BY <1>5 DEF Authorise, server, At
  <2>2. CASE tab' = [tab EXCEPT ![t] = Idle]
    BY <1>4, <2>1, <2>2
  <2>3. CASE Dead(tab[t].token) /\ TabGoes(t, IF At(t, "retry") THEN "refused" ELSE "401")
    <3> DEFINE place == IF At(t, "retry") THEN "refused" ELSE "401"
    <3>1. place \in {"refused", "401"} /\ place \notin Asking /\ place # "answer"
      BY DEF Asking
    <3> QED BY <1>3, <2>1, <2>3, <3>1
  <2> QED BY <1>5, <2>2, <2>3 DEF Authorise, Refused, Dead
<1>6. ASSUME NEW t \in Tab, BeginRefresh(t) PROVE Orderly'
  <2>1. CASE store = Nobody
    BY <1>3, <1>6, <2>1 DEF BeginRefresh, server, At, Asking
  <2>2. CASE store # Nobody
    <3> DEFINE next == [at |-> "check", token |-> Nobody, grant |-> store]
    <3>1. /\ At(t, "401") /\ store = tab[t].token /\ leaving.at = "idle"
          /\ \A u \in Tab \ {t} : tab[u].at \notin Refreshing
          /\ tab' = [tab EXCEPT ![t] = next]
          /\ UNCHANGED <<issued, denied, expired, leaving, store>>
      BY <1>6, <2>2 DEF BeginRefresh, Alone, server, Clean
    <3>2. /\ tab'[t] = next
          /\ \A u \in Tab \ {t} : tab'[u] = tab[u] /\ tab[u].at \notin Exchanging
          /\ tab[t].at \notin Exchanging
      BY <1>0, <3>1 DEF SessionsTyped, Exchanging, Asking, Refreshing, At
    <3>3. /\ next.at = "check" /\ next.grant = store /\ Dead(store)
      BY <3>1 DEF Orderly, OneByOne
    <3> HIDE DEF next
    <3>4. OneByOne'
      BY <3>1, <3>2, <3>3 DEF Orderly, OneByOne, Exchanging, Asking, At, Dead, Denied
    <3>5. Accounted'
      BY <3>1, <3>2, <3>3 DEF Orderly, Accounted, Exchanging, At, Dead, Denied
    <3> QED BY <3>4, <3>5 DEF Orderly
  <2> QED BY <2>1, <2>2
<1>7. ASSUME NEW t \in Tab, Check(t) \/ Load(t) PROVE Orderly'
  BY <1>3, <1>7 DEF Check, Load, server, At, Asking
<1>8. ASSUME NEW t \in Tab, Rotate(t) PROVE Orderly'
  <2> DEFINE g == tab[t].grant
             next == [at |-> "answer", token |-> issued', grant |-> g]
  <2>1. /\ At(t, "rotate") /\ Issue /\ denied' = denied \cup {<<"refresh", g>>}
        /\ tab' = [tab EXCEPT ![t] = next] /\ UNCHANGED <<expired, store, leaving>>
    BY <1>8, SMT DEF Rotate, Deny, Clean
  <2>2. /\ tab'[t] = next
        /\ \A u \in Tab \ {t} : tab'[u] = tab[u] /\ tab[u].at \notin Exchanging
    BY <1>0, <2>1 DEF SessionsTyped, Orderly, OneByOne, Exchanging, Asking, At
  <2>3. leaving.at = "idle" /\ Dead(g) /\ store = g
    BY <2>1 DEF Orderly, OneByOne, Exchanging, Asking, At
  <2>4. /\ issued' = issued + 1 /\ issued \in Nat /\ ~Denied(issued')
        /\ \A h : (Denied(h)' <=> Denied(h) \/ h = g) /\ (Dead(h)' <=> Dead(h))
    BY <1>0, <2>1, NewGrant DEF SessionsTyped, Denied, Dead
  <2>5. next.at = "answer" /\ next.token = issued' /\ next.grant = g
    OBVIOUS
  <2> HIDE DEF next, g
  <2>6. OneByOne'
    BY <2>1, <2>2, <2>3, <2>4, <2>5 DEF Orderly, OneByOne, Exchanging, Asking, At
  <2>7. Accounted'
    <3>1. \A h \in 1 .. issued' : h = issued' \/ h \in 1 .. issued
      BY <2>4
    <3>2. \A h \in 1 .. issued : ~\E u \in Tab : At(u, "answer") /\ tab[u].token = h
      BY <2>1, <2>2 DEF At, Exchanging
    <3>3. At(t, "answer")' /\ tab'[t].token = issued'
      BY <2>2, <2>5 DEF At
    <3> QED BY <2>1, <2>3, <2>4, <3>1, <3>2, <3>3 DEF Orderly, Accounted
  <2> QED BY <2>6, <2>7 DEF Orderly
<1>9. ASSUME NEW t \in Tab, Answer(t) PROVE Orderly'
  <2> DEFINE next == [at |-> "retry", token |-> tab[t].token, grant |-> Nobody]
  <2>1. /\ At(t, "answer") /\ store' = tab[t].token /\ tab' = [tab EXCEPT ![t] = next]
        /\ UNCHANGED <<issued, denied, expired, leaving>>
    BY <1>9 DEF Answer, server
  <2>2. /\ tab'[t] = next /\ next.at = "retry"
        /\ \A u \in Tab \ {t} : tab'[u] = tab[u] /\ tab[u].at \notin Exchanging
    BY <1>0, <2>1 DEF SessionsTyped, Orderly, OneByOne, Exchanging, Asking, At
  <2>3. Denied(tab[t].grant) /\ store \in {tab[t].grant, Nobody} /\ leaving.at = "idle"
    BY <2>1 DEF Orderly, OneByOne, Exchanging, At
  <2> HIDE DEF next
  <2>4. OneByOne'
    BY <2>1, <2>2 DEF Orderly, OneByOne, Exchanging, Asking, At, Dead, Denied
  <2>5. Accounted'
    BY <2>1, <2>2, <2>3 DEF Orderly, Accounted, Exchanging, At, Dead, Denied, Nobody
  <2> QED BY <2>4, <2>5 DEF Orderly
<1>10. ASSUME NEW t \in Tab, Drop(t) PROVE Orderly'
  BY <1>10 DEF Drop, Clean
<1>11. ASSUME NEW t \in Tab, GiveUp(t) PROVE Orderly'
  <2>1. CASE store' = store
    BY <1>4, <1>11, <2>1 DEF GiveUp, server, At
  <2>2. CASE store' # store
    <3>1. /\ tab' = [tab EXCEPT ![t] = Idle] /\ At(t, "refused")
          /\ store' = Nobody /\ Denied(store)
          /\ UNCHANGED <<issued, denied, expired, leaving>>
      BY <1>11, <2>2 DEF GiveUp, server, Clean, Denied
    <3>2. PICK u \in Tab : At(u, "answer") /\ tab[u].grant = store
      BY <3>1 DEF SessionsInv, StoreIsLive, Denied, Clean
    <3>3. /\ tab'[t] = Idle /\ Idle.at = "idle"
          /\ \A v \in Tab \ {t} : tab'[v] = tab[v]
      BY <1>0, <3>1 DEF SessionsTyped, Idle
    <3>4. \A v \in Tab : tab[v].at \notin Asking
      BY <3>2 DEF Orderly, OneByOne, Exchanging, Asking, At
    <3>5. OneByOne'
      BY <3>1, <3>3, <3>4 DEF Orderly, OneByOne, Exchanging, Asking, At, Dead, Denied
    <3>6. Accounted'
      BY <3>1, <3>3 DEF Orderly, Accounted, At, Dead, Denied
    <3> QED BY <3>5, <3>6 DEF Orderly
  <2> QED BY <2>1, <2>2
<1>12. CASE Logout
  <2>1. /\ leaving' = [at |-> "refresh", grant |-> store] /\ leaving.at = "idle"
        /\ store' = Nobody /\ UNCHANGED <<issued, denied, expired, tab>>
        /\ \A t \in Tab : tab[t].at \notin Exchanging
    BY <1>12 DEF Logout, server, Clean, Exchanging, Asking, Refreshing
  <2>2. OneByOne'
    BY <2>1 DEF Orderly, OneByOne, Exchanging, Asking, At, Dead, Denied
  <2>3. Accounted'
    BY <2>1 DEF Orderly, Accounted, At, Dead, Denied
  <2> QED BY <2>2, <2>3 DEF Orderly
<1>13. CASE DenyRefresh
  <2> DEFINE l == leaving.grant
  <2>1. /\ leaving.at = "refresh" /\ leaving' = [at |-> "access", grant |-> l]
        /\ denied' = denied \cup {<<"refresh", l>>} /\ UNCHANGED <<issued, expired, store, tab>>
    BY <1>0, <1>13 DEF DenyRefresh, Deny, Clean, history, SessionsTyped
  <2>2. \A h : (Denied(h)' <=> Denied(h) \/ h = l) /\ (Dead(h)' <=> Dead(h))
    BY <2>1 DEF Denied, Dead
  <2>3. \A t \in Tab : tab[t].at \notin Exchanging
    BY <2>1 DEF Orderly, OneByOne
  <2> HIDE DEF l
  <2>4. OneByOne'
    BY <2>1, <2>2, <2>3 DEF Orderly, OneByOne, Exchanging, Asking, At
  <2>5. Accounted'
    <3>1. \A g : leaving # [at |-> "access", grant |-> g]
      BY <2>1
    <3>2. \A g : leaving = [at |-> "refresh", grant |-> g] => g = l
      BY DEF l
    <3> QED BY <2>1, <2>2, <3>1, <3>2 DEF Orderly, Accounted, At
  <2> QED BY <2>4, <2>5 DEF Orderly
<1>14. CASE DenyAccess
  <2>1. PICK l : l = leaving.grant
    OBVIOUS
  <2>2. /\ leaving.at = "access" /\ leaving' = [at |-> "idle", grant |-> Nobody]
        /\ UNCHANGED <<issued, expired, store, tab>>
    BY <1>14 DEF DenyAccess, history
  <2>3. (l \in expired /\ denied' = denied) \/ denied' = denied \cup {<<"access", l>>}
    BY <1>14, <2>1 DEF DenyAccess, Deny, Clean
  <2>4. /\ \A h : Denied(h)' <=> Denied(h)
        /\ \A h : Dead(h) => Dead(h)'
        /\ Dead(l)'
    BY <2>2, <2>3 DEF Dead, Denied
  <2>5. \A t \in Tab : tab[t].at \notin Exchanging
    BY <2>2 DEF Orderly, OneByOne
  <2>6. OneByOne'
    BY <2>2, <2>4, <2>5 DEF Orderly, OneByOne, Exchanging, Asking, At
  <2>7. \A g : /\ leaving # [at |-> "refresh", grant |-> g]
              /\ leaving = [at |-> "access", grant |-> g] => g = l
    BY <2>1, <2>2
  <2>8. Accounted'
    BY <2>2, <2>4, <2>7 DEF Orderly, Accounted, At
  <2> QED BY <2>6, <2>8 DEF Orderly
<1>15. CASE SetActive \/ \E g \in Grant : AccessExpires(g)
  <2>1. /\ expired \subseteq expired'
        /\ UNCHANGED <<issued, denied, store, tab, leaving>>
    BY <1>15 DEF SetActive, AccessExpires, history
  <2>2. OneByOne'
    BY <2>1 DEF Orderly, OneByOne, At, Dead, Denied
  <2>3. Accounted'
    BY <2>1 DEF Orderly, Accounted, At, Dead, Denied
  <2> QED BY <2>2, <2>3 DEF Orderly
<1> QED
  BY <1>1, <1>2, <1>5, <1>6, <1>7, <1>8, <1>9, <1>10, <1>11, <1>12, <1>13, <1>14, <1>15
  DEF SessionsNext

\* When nothing is under way, the stored grant is the only one that is good, in
\* all behaviours that OneLiveGrant does not excuse.
THEOREM OneGrantLives == SessionsSpec => []OneLiveGrant
<1> DEFINE I == SessionsInv /\ misses \in Nat /\ (Clean => Orderly)
<1>1. SessionsInit => I
  BY SessionsInitInv, OrderlyInit DEF SessionsInit
<1>2. I /\ [SessionsNext]_sessionVars => I'
  <2> SUFFICES ASSUME I, [SessionsNext]_sessionVars PROVE I'
    OBVIOUS
  <2>1. SessionsInv'
    BY SessionsNextInv
  <2>2. misses' \in Nat
    BY MissesCount DEF SessionsInv
  <2>3. ASSUME Clean' PROVE Orderly'
    <3>1. Clean /\ misses' = misses /\ dropped' = dropped /\ Orderly
      BY <2>3, CleanBefore DEF SessionsInv
    <3>2. CASE UNCHANGED sessionVars
      BY <3>1, <3>2 DEF sessionVars, Orderly, OneByOne, Accounted, At, Dead, Denied
    <3>3. CASE SessionsNext
      BY <2>3, <3>1, <3>3, OrderlyNext
    <3> QED BY <3>2, <3>3
  <2> QED BY <2>1, <2>2, <2>3
<1>3. I => OneLiveGrant
  <2> SUFFICES ASSUME I, Clean, leaving.at = "idle", \A t \in Tab : tab[t].at \notin Refreshing,
                      NEW g \in 1 .. issued \ {store}
               PROVE  Denied(g) /\ Dead(g)
    BY DEF OneLiveGrant, Clean, Denied, Dead
  <2>1. Denied(g)
    BY DEF Orderly, Accounted, At, Refreshing
  <2>2. Dead(g)
    BY <2>1 DEF Orderly, Accounted
  <2> QED BY <2>1, <2>2
<1> QED BY <1>1, <1>2, <1>3, PTL DEF SessionsSpec

-----------------------------------------------------------------------------
(* Tickets.                                                                *)

\* The connections that have read k and are not let in or refused yet.
With(k) == {c \in Opener : opener[c].at \in {"delete", "load"} /\ opener[c].ticket = k}

TicketsTyped ==
    /\ kept \subseteq asked
    /\ opener \in [Opener -> {Rest} \cup [at : {"delete", "load"}, ticket : Ticket]]
    /\ streams \in [Ticket -> Nat]

\* OneTimeTicket is not inductive: a ticket must not be read again once it has
\* opened a stream.  It is not, since it was deleted before and is never stored
\* again; until then every stream it may open has its connection.
Room(k) ==
    /\ k \notin asked => streams[k] = 0 /\ With(k) = {}
    /\ k \in kept => streams[k] = 0 /\ \A c \in With(k) : Is(c, "delete")
    /\ IF k \in overlap
       THEN streams[k] + Cardinality(With(k)) <= Cardinality(Opener)
       ELSE \/ streams[k] = 0 /\ \A c, d \in With(k) : c = d
            \/ streams[k] = 1 /\ With(k) = {}

TicketsInv == TicketsTyped /\ \A k \in Ticket : Room(k)

-----------------------------------------------------------------------------
LEMMA TicketsInitInv == TicketsInit => TicketsInv
BY DEF TicketsInit, TicketsInv, TicketsTyped, Room, With, Rest

LEMMA FewOpen ==
    ASSUME NEW k
    PROVE  /\ IsFiniteSet(With(k)) /\ IsFiniteSet(With(k)')
           /\ Cardinality(With(k)) \in Nat /\ Cardinality(With(k)') \in Nat
           /\ Cardinality(Opener) \in Nat
           /\ Cardinality(With(k)') <= Cardinality(Opener)
<1>1. With(k) \subseteq Opener /\ With(k)' \subseteq Opener
  BY DEF With
<1> QED BY <1>1, TicketsAssumption, FS_Subset, FS_CardinalityType

\* A connection that leaves makes room for its stream.
LEMMA OpenerLeaves ==
    ASSUME TicketsTyped, NEW c \in Opener, opener' = [opener EXCEPT ![c] = Rest], NEW k
    PROVE  /\ With(k)' = With(k) \ {c}
           /\ c \in With(k) => Cardinality(With(k)') = Cardinality(With(k)) - 1
<1>1. With(k)' = With(k) \ {c}
  BY DEF TicketsTyped, With, Rest
<1> QED BY <1>1, FewOpen, FS_RemoveElement

LEMMA TicketsNextInv == TicketsInv /\ [TicketsNext]_ticketVars => TicketsInv'
<1> SUFFICES ASSUME TicketsInv, [TicketsNext]_ticketVars PROVE TicketsInv'
  OBVIOUS
<1> USE DEF TicketsInv
<1>1. ASSUME UNCHANGED <<asked, opener, streams, overlap>>, kept' \subseteq kept PROVE TicketsInv'
  BY <1>1 DEF TicketsTyped, Room, With, Is
<1>2. CASE UNCHANGED ticketVars
  BY <1>1, <1>2 DEF ticketVars
<1>3. ASSUME NEW k \in Ticket, CreateTicket(k) PROVE TicketsInv'
  <2>1. /\ k \notin asked /\ asked' = asked \cup {k} /\ kept' = kept \cup {k}
        /\ UNCHANGED <<opener, streams, overlap>>
    BY <1>3 DEF CreateTicket
  <2>2. TicketsTyped'
    BY <2>1 DEF TicketsTyped
  <2>3. ASSUME NEW j \in Ticket PROVE With(j)' = With(j)
    BY <2>1 DEF With
  <2> QED BY <2>1, <2>2, <2>3 DEF Room, Is
<1>4. ASSUME NEW k \in Ticket, TicketExpires(k) PROVE TicketsInv'
  BY <1>1, <1>4 DEF TicketExpires
<1>5. ASSUME NEW c \in Opener, NEW k \in Ticket, GetTicket(c, k) PROVE TicketsInv'
  <2>1. /\ opener[c].at = "rest" /\ k \in kept /\ k \in asked
        /\ opener' = [opener EXCEPT ![c] = [at |-> "delete", ticket |-> k]]
        /\ overlap' = IF \E d \in Opener : Is(d, "delete") /\ opener[d].ticket = k
                      THEN overlap \cup {k} ELSE overlap
        /\ UNCHANGED <<kept, asked, streams>>
    BY <1>5 DEF GetTicket, Put, Is, TicketsTyped
  <2>2. TicketsTyped'
    BY <2>1 DEF TicketsTyped
  <2>3. With(k)' = With(k) \cup {c} /\ \A j \in Ticket : j # k => With(j)' = With(j)
    BY <2>1 DEF TicketsTyped, With
  <2>4. ASSUME NEW j \in Ticket, j # k PROVE Room(j)'
    <3>1. \A d \in With(j) : opener'[d] = opener[d]
      BY <2>1 DEF TicketsTyped, With
    <3>2. (j \in overlap)' <=> j \in overlap
      BY <2>1, <2>4
    <3> QED BY <2>1, <2>3, <2>4, <3>1, <3>2 DEF Room, Is
  <2>5. Room(k)'
    <3>1. streams[k] = 0 /\ \A d \in With(k)' : Is(d, "delete")'
      BY <2>1, <2>3 DEF Room, Is, TicketsTyped
    <3>2. CASE k \in overlap'
      BY <2>1, <3>1, <3>2, FewOpen DEF Room
    <3>3. CASE k \notin overlap'
      <4>1. With(k) = {}
        BY <2>1, <3>3 DEF Room, Is, With
      <4> QED BY <2>1, <2>3, <3>1, <3>3, <4>1 DEF Room
    <3> QED BY <3>2, <3>3
  <2> QED BY <2>2, <2>4, <2>5
<1>6. ASSUME NEW c \in Opener, DeleteTicket(c) PROVE TicketsInv'
  <2> DEFINE k == opener[c].ticket
  <2>1. /\ opener[c].at = "delete" /\ k \in Ticket
        /\ opener' = [opener EXCEPT ![c] = [at |-> "load", ticket |-> k]]
        /\ kept' = kept \ {k} /\ UNCHANGED <<asked, streams, overlap>>
    BY <1>6 DEF DeleteTicket, Put, Is, TicketsTyped, Rest
  <2>2. TicketsTyped'
    BY <2>1 DEF TicketsTyped
  <2>3. ASSUME NEW j \in Ticket PROVE With(j)' = With(j)
    BY <2>1 DEF TicketsTyped, With
  <2>4. ASSUME NEW j \in Ticket, j # k, NEW d \in With(j) PROVE opener'[d] = opener[d]
    BY <2>1, <2>4 DEF TicketsTyped, With
  <2> QED BY <2>1, <2>2, <2>3, <2>4 DEF Room, Is
<1>7. ASSUME NEW c \in Opener, opener' = [opener EXCEPT ![c] = Rest],
             kept' \subseteq kept, UNCHANGED <<asked, overlap>>, c \in With(opener[c].ticket),
             \/ streams' = streams
             \/ ~Is(c, "delete") /\ streams' = [streams EXCEPT ![opener[c].ticket] = @ + 1]
      PROVE  TicketsInv'
  <2>1. PICK k \in Ticket : k = opener[c].ticket
    BY <1>7 DEF With, TicketsTyped, Rest
  <2>2. TicketsTyped'
    BY <1>7, <2>1 DEF TicketsTyped
  <2>3. ASSUME NEW j \in Ticket, j # k PROVE Room(j)'
    <3>1. With(j)' = With(j) \ {c} /\ c \notin With(j)
      BY <1>7, <2>1, <2>3, OpenerLeaves DEF With
    <3>2. With(j)' = With(j) /\ streams'[j] = streams[j]
      BY <1>7, <2>1, <2>3, <3>1 DEF TicketsTyped
    <3>3. \A d \in With(j) : opener'[d] = opener[d]
      BY <1>7, <3>1 DEF With, TicketsTyped
    <3> QED BY <1>7, <3>2, <3>3 DEF Room, Is
  <2>4. Room(k)'
    <3>1. /\ With(k)' = With(k) \ {c} /\ c \in With(k)
          /\ Cardinality(With(k)') = Cardinality(With(k)) - 1
      BY <1>7, <2>1, OpenerLeaves
    <3>2. \A d \in With(k)' : opener'[d] = opener[d]
      BY <1>7, <3>1 DEF With, TicketsTyped
    <3>3. streams'[k] \in {streams[k], streams[k] + 1} /\ streams[k] \in Nat
      BY <1>7, <2>1 DEF TicketsTyped
    <3>4. k \in kept => streams'[k] = streams[k]
      BY <1>7, <2>1, <3>1 DEF Room
    <3>5. k \in asked
      BY <2>1, <3>1 DEF Room
    <3>6. CASE k \in overlap
      <4>1. streams[k] + Cardinality(With(k)) <= Cardinality(Opener)
        BY <2>1, <3>6 DEF Room
      <4>2. streams'[k] + Cardinality(With(k)') <= Cardinality(Opener)
        BY <3>1, <3>3, <4>1, FewOpen
      <4> QED BY <1>7, <2>1, <3>1, <3>2, <3>4, <3>5, <3>6, <4>2 DEF Room, Is
    <3>7. CASE k \notin overlap
      <4>1. streams[k] = 0 /\ With(k)' = {}
        BY <2>1, <3>1, <3>7 DEF Room
      <4> QED BY <1>7, <2>1, <3>3, <3>4, <3>5, <3>7, <4>1 DEF Room
    <3> QED BY <3>6, <3>7
  <2> QED BY <2>2, <2>3, <2>4
<1>8. ASSUME NEW c \in Opener, DeleteLost(c) PROVE TicketsInv'
  <2>1. c \in With(opener[c].ticket)
    BY <1>8 DEF DeleteLost, Is, With
  <2> QED BY <1>7, <1>8, <2>1 DEF DeleteLost
<1>9. ASSUME NEW c \in Opener, OpenStream(c) PROVE TicketsInv'
  <2>1. c \in With(opener[c].ticket) /\ ~Is(c, "delete")
    BY <1>9 DEF OpenStream, Is, With
  <2> QED BY <1>7, <1>9, <2>1 DEF OpenStream
<1>10. CASE ToggleValid
  BY <1>1, <1>10 DEF ToggleValid
<1> QED BY <1>2, <1>3, <1>4, <1>5, <1>6, <1>8, <1>9, <1>10 DEF TicketsNext

\* A ticket opens one stream, or as many as read it before it was deleted.
THEOREM TicketsOpenOnce == TicketsSpec => []OneTimeTicket
<1>1. ASSUME TicketsInv PROVE OneTimeTicket
  <2> SUFFICES ASSUME NEW k \in Ticket
               PROVE  streams[k] <= IF k \in overlap THEN Cardinality(Opener) ELSE 1
    BY DEF OneTimeTicket
  <2> QED BY <1>1, FewOpen DEF TicketsInv, TicketsTyped, Room
<1> QED BY TicketsInitInv, TicketsNextInv, <1>1, PTL DEF TicketsSpec
=============================================================================
