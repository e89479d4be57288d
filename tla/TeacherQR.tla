------------------------------ MODULE TeacherQR ------------------------------
(***************************************************************************)
(* The one-use QR tokens that teachers show on their screens and students  *)
(* scan (src/internal/teacherqr).  A teacher may have several live tokens. *)
(* ExitPermit and LateArrival extend this module: their scans call         *)
(* ConsumeToken before they look at who the teacher is.                    *)
(***************************************************************************)
CONSTANTS
    Users,     \* accounts of a school
    Teachers,  \* the accounts with the role guru
    Tokens,    \* rows of teacher_qr_tokens
    NoUser

ASSUME TeacherQRAssumption == Teachers \subseteq Users /\ NoUser \notin Users

VARIABLES
    qrState,   \* of each token
    qrOwner    \* user_id of each token

qrVars == <<qrState, qrOwner>>

TokenStates == {"unborn", "live", "used", "expired"}

TokensTypeOK ==
    /\ qrState \in [Tokens -> TokenStates]
    /\ qrOwner \in [Tokens -> Users \cup {NoUser}]
    /\ \A k \in Tokens : qrState[k] # "unborn" => qrOwner[k] \in Users

TokensInit ==
    /\ qrState = [k \in Tokens |-> "unborn"]
    /\ qrOwner = [k \in Tokens |-> NoUser]

\* The expired rows of the teacher are deleted as well: a deleted token and an
\* expired one are refused alike, so both are "expired" here.
GenerateToken(u, k) ==
    /\ u \in Teachers
    /\ qrState[k] = "unborn"
    /\ qrState' = [qrState EXCEPT ![k] = "live"]
    /\ qrOwner' = [qrOwner EXCEPT ![k] = u]

\* Mutant: consumed_at IS NULL is not asked for.
ConsumeTokenAgain(k) ==
    /\ qrState[k] \in {"live", "used"}
    /\ qrState' = [qrState EXCEPT ![k] = "used"]
    /\ UNCHANGED qrOwner

\* One UPDATE ... WHERE consumed_at IS NULL AND expires_at > now.
ConsumeToken(k) ==
    /\ qrState[k] = "live"
    /\ qrState' = [qrState EXCEPT ![k] = "used"]
    /\ UNCHANGED qrOwner

\* Sixty seconds pass.
TokenExpires(k) ==
    /\ qrState[k] = "live"
    /\ qrState' = [qrState EXCEPT ![k] = "expired"]
    /\ UNCHANGED qrOwner
=============================================================================
