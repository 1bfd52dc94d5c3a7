---------------------------- MODULE Registration ----------------------------
(* The table users: AuthService.Register and UserRepository.Create.  The   *)
(* INSERT computes is_admin from the rows that were committed when it      *)
(* began, and takes effect when it commits.                                *)
EXTENDS Naturals

CONSTANTS Applicants, Email, Username

ASSUME RegistrationAssumption ==
    DOMAIN Email = Applicants /\ DOMAIN Username = Applicants

VARIABLES
    progress,      \* where each registration is
    isAdmin,    \* is_admin of its row
    early       \* history: nobody was registered when it came in

registrationVars == <<progress, isAdmin, early>>

(* The committed rows. *)
Registered == {p \in Applicants : progress[p] = "registered"}
Admins     == {p \in Registered : isAdmin[p]}

(* The two unique constraints. *)
Taken(p) == \E q \in Registered : Email[q] = Email[p] \/ Username[q] = Username[p]

RegistrationInit ==
    /\ progress = [p \in Applicants |-> "new"]
    /\ isAdmin = [p \in Applicants |-> FALSE]
    /\ early = [p \in Applicants |-> FALSE]

(* Input checks and the hashing of the password come first.                *)
Register(p) ==
    /\ progress[p] = "new"
    /\ progress' = [progress EXCEPT ![p] = "hashing"]
    /\ early' = [early EXCEPT ![p] = Registered = {}]
    /\ UNCHANGED isAdmin

(* NOT EXISTS (SELECT 1 FROM users) on the snapshot of the statement.      *)
(* ComputeById is a flag for the test id = 1: the first to get here takes  *)
(* the number, whether his row is committed or not.                        *)
ComputeById(p) ==
    /\ progress[p] = "hashing"
    /\ progress' = [progress EXCEPT ![p] = "inserting"]
    /\ isAdmin' = [isAdmin EXCEPT
          ![p] = \A q \in Applicants \ {p} : progress[q] \in {"new", "hashing"}]
    /\ UNCHANGED early

ComputeIsAdmin(p) ==
    /\ progress[p] = "hashing"
    /\ progress' = [progress EXCEPT ![p] = "inserting"]
    /\ isAdmin' = [isAdmin EXCEPT ![p] = Registered = {}]
    /\ UNCHANGED early

(* The row is committed, or violates a unique constraint.                  *)
Create(p) ==
    /\ progress[p] = "inserting"
    /\ progress' = [progress EXCEPT ![p] = IF Taken(p) THEN "refused" ELSE "registered"]
    /\ UNCHANGED <<isAdmin, early>>

RegistrationFails(p) ==
    /\ progress[p] \in {"hashing", "inserting"}
    /\ progress' = [progress EXCEPT ![p] = "refused"]
    /\ UNCHANGED <<isAdmin, early>>

RegistrationNext ==
    \E p \in Applicants :
        Register(p) \/ ComputeIsAdmin(p) \/ Create(p) \/ RegistrationFails(p)

RegistrationSpec == RegistrationInit /\ [][RegistrationNext]_registrationVars

----------------------------------------------------------------------------
RegistrationTypeOK ==
    /\ progress \in [Applicants -> {"new", "hashing", "inserting", "registered", "refused"}]
    /\ isAdmin \in [Applicants -> BOOLEAN]
    /\ early \in [Applicants -> BOOLEAN]

(* The bootstrap works whatever registrations race: once somebody is       *)
(* registered there is an administrator, and nobody becomes one who came   *)
(* after the first user was there.  Those whose INSERTs overlap the first  *)
(* all become administrators, so that there may be several.                *)
FirstUsersAdminister ==
    /\ Registered # {} => Admins # {}
    /\ \A p \in Admins : early[p]
=============================================================================
