------------------------------ MODULE Accounts ------------------------------
(***************************************************************************)
(* The rows of the users table: registration with its sign-up bonus        *)
(* (routers/auth.py register) and the one update administrators make       *)
(* (routers/admin.py, services/admin.py update_user).                      *)
(*                                                                         *)
(* A user stands for an e-mail address with its user name.  Of the roles,  *)
(* admin is told apart from the rest.                                      *)
(***************************************************************************)
EXTENDS Integers, FiniteSets

CONSTANTS
    Account,    \* users that are or may be registered
    Founder,    \* those that are administrators at first
    Form,       \* registrations under way
    Patch,      \* updates under way
    MaxUpdates  \* bound: updates

ASSUME AccountsAssumption ==
    /\ Founder \subseteq Account /\ Founder # {}
    /\ MaxUpdates \in Nat

VARIABLES
    row,      \* [Account -> its row, or NoRow]
    bonus,    \* [Account -> sign-up bonuses in its wallet]
    form,     \* [Form -> where the registration is, and for whom]
    patch,    \* [Patch -> where the update is, its actor, target and changes]
    updates,  \* updates begun
    cut,      \* history: users whose registration failed after its first commit
    joined    \* history: the last update to begin had company

accountVars == <<row, bonus, form, patch, updates, cut, joined>>

NoRow == [role |-> "none", state |-> "none"]
Role == {"user", "admin"}
State == {"active", "blocked"}  \* is_active
Waiting == [at |-> "waiting"]

AccountsInit ==
    /\ row = [u \in Account |-> IF u \in Founder THEN [role |-> "admin", state |-> "active"] ELSE NoRow]
    /\ bonus = [u \in Account |-> 0]
    /\ form = [f \in Form |-> Waiting]
    /\ patch = [p \in Patch |-> Waiting]
    /\ updates = 0
    /\ cut = {}
    /\ joined = FALSE

ActiveAdmin(u) == row[u] = [role |-> "admin", state |-> "active"]

-----------------------------------------------------------------------------
\* register finds no row of the user,
CheckFree(f, u) ==
    /\ form[f] = Waiting
    /\ row[u] = NoRow
    /\ form' = [form EXCEPT ![f] = [at |-> "insert", user |-> u]]
    /\ UNCHANGED <<row, bonus, patch, updates, cut, joined>>

\* Faulty: the columns are not unique.
InsertUserAgain(f) ==
    LET u == form[f].user IN
    /\ form[f].at = "insert"
    /\ row' = [row EXCEPT ![u] = [role |-> "user", state |-> "active"]]
    /\ form' = [form EXCEPT ![f].at = "bonus"]
    /\ UNCHANGED <<bonus, patch, updates, cut, joined>>
\* inserts one and commits it, unless another registration was faster,
InsertUser(f) ==
    LET u == form[f].user IN
    /\ form[f].at = "insert"
    /\ IF row[u] = NoRow
       THEN /\ row' = [row EXCEPT ![u] = [role |-> "user", state |-> "active"]]
            /\ form' = [form EXCEPT ![f].at = "bonus"]
       ELSE /\ form' = [form EXCEPT ![f] = Waiting]
            /\ UNCHANGED row
    /\ UNCHANGED <<bonus, patch, updates, cut, joined>>

\* then credits the bonus and commits again.
PayBonus(f) ==
    /\ form[f].at = "bonus"
    /\ bonus' = [bonus EXCEPT ![form[f].user] = @ + 1]
    /\ form' = [form EXCEPT ![f] = Waiting]
    /\ UNCHANGED <<row, patch, updates, cut, joined>>

\* The credit fails and the failure is logged; or the process ends.
CutShort(f) ==
    /\ form[f].at \in {"insert", "bonus"}
    /\ cut' = IF form[f].at = "bonus" THEN cut \cup {form[f].user} ELSE cut
    /\ form' = [form EXCEPT ![f] = Waiting]
    /\ UNCHANGED <<row, bonus, patch, updates, joined>>

-----------------------------------------------------------------------------
\* require_admin lets an active administrator in,
AdmitAdmin(p, actor) ==
    /\ patch[p] = Waiting
    /\ updates < MaxUpdates
    /\ ActiveAdmin(actor)
    /\ patch' = [patch EXCEPT ![p] = [at |-> "load", actor |-> actor]]
    /\ updates' = updates + 1
    /\ joined' = (\E q \in Patch : patch[q] # Waiting)
    /\ UNCHANGED <<row, bonus, form, cut>>

\* Changes a body of the request may ask for: a role, is_active or both.
\* "same" stands for a field that is not sent.
Change == [role : Role \cup {"same"}, state : State \cup {"same"}]

\* Faulty: only blocking oneself is refused.
BarsSelfBlock(actor, target, c) == target = actor /\ c.state = "blocked"
\* Self-protection.
Bars(actor, target, c) == target = actor /\ (c.role # "same" \/ c.state = "blocked")

\* update_user loads the target, if there is one, and refuses what it bars.  Only a column whose
\* value differs from the one loaded is going to be written.
LoadTarget(p, target, c) ==
    LET old == row[target] IN
    /\ patch[p].at = "load"
    /\ IF old = NoRow \/ Bars(patch[p].actor, target, c)
       THEN patch' = [patch EXCEPT ![p] = Waiting]
       ELSE patch' = [patch EXCEPT ![p] =
                [at |-> "write", target |-> target,
                 role |-> IF c.role = old.role THEN "same" ELSE c.role,
                 state |-> IF c.state = old.state THEN "same" ELSE c.state]]
    /\ UNCHANGED <<row, bonus, form, updates, cut, joined>>

\* The flush and the router's commit: the row's lock is waited for, its present
\* values are not looked at.
WriteTarget(p) ==
    LET w == patch[p] IN
    /\ w.at = "write"
    /\ row' = [row EXCEPT ![w.target] =
                  [role  |-> IF w.role = "same" THEN @.role ELSE w.role,
                   state |-> IF w.state = "same" THEN @.state ELSE w.state]]
    /\ patch' = [patch EXCEPT ![p] = Waiting]
    /\ UNCHANGED <<bonus, form, updates, cut, joined>>

AccountsNext ==
    \/ \E f \in Form :
           (\E u \in Account : CheckFree(f, u)) \/ InsertUser(f) \/ PayBonus(f) \/ CutShort(f)
    \/ \E p \in Patch :
           \/ \E u \in Account : AdmitAdmin(p, u)
           \/ \E u \in Account, c \in Change : LoadTarget(p, u, c)
           \/ WriteTarget(p)

AccountsSpec == AccountsInit /\ [][AccountsNext]_accountVars

-----------------------------------------------------------------------------
\* A registered user has exactly one sign-up bonus, however many registrations
\* raced for the name, or one on its way, or its registration was cut short
\* between its two commits: no other way leads to a user without.
BonusOnce ==
    \A u \in Account \ Founder :
        IF row[u] = NoRow \/ u \in cut THEN bonus[u] = 0
        ELSE bonus[u] + Cardinality({f \in Form : form[f].at = "bonus" /\ form[f].user = u}) = 1

\* Someone is always left to administer the exchange.  Self-protection is all
\* that sees to it, and it takes updates that do not overlap: two administrators
\* who demote each other at once both succeed.
AdminRemains == joined \/ \E u \in Account : ActiveAdmin(u)
=============================================================================
