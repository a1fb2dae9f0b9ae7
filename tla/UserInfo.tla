------------------------------ MODULE UserInfo ------------------------------
(***************************************************************************)
(* Who a build is for (builder/userinfo.go): the account that gets the     *)
(* packages, from sudo or from the process, and the name and email written *)
(* into the root, from the first file that has both, or a fallback.        *)
(***************************************************************************)

VARIABLES
    upc,   \* where GetUserInfo is
    sudo,  \* what sudo left in the environment, and whether it can be looked up
    user   \* the UserInfo

userVars == <<upc, sudo, user>>

\* The files with a name and an email, in the order they are tried.
Packager == {"config/solus", "solus", "evolveos"}
File == Packager \cup {"gitconfig"}
After == [f \in File |-> CASE f = "config/solus" -> "solus"
                           [] f = "solus"        -> "evolveos"
                           [] f = "evolveos"     -> "gitconfig"
                           [] f = "gitconfig"    -> "fallback"]

\* What may be found at the path of one of them.  A key that is there may have
\* no value.
HasBoth == {"both", "empty name", "empty email", "both empty"}
Content == {"absent", "malformed", "no section", "no name", "no email"} \cup HasBoth

SudoEnv == [uid : {"", "1000", "malformed"}, gid : {"", "100", "malformed"},
            known : BOOLEAN]

\* The fields of a UserInfo; a name or an email is told by where it comes from.
UserInfo == [UID : {"", "0", "1000"}, GID : {"", "0", "100", "1000"},
             HomeDir : {"", "of the account", "of $USERNAME"},
             Name : {"", "account", "$USERNAME", "fallback"} \cup File,
             Email : {"", "@host", "fallback"} \cup File]

UserTypeOK ==
    /\ upc \in {"sudo", "current", "fallback", "done", "panic"} \cup File
    /\ sudo \in SudoEnv
    /\ user \in UserInfo

UserInit ==
    /\ upc = "sudo"
    /\ sudo = [uid |-> "", gid |-> "", known |-> FALSE]
    /\ user = [UID |-> "", GID |-> "", HomeDir |-> "", Name |-> "", Email |-> ""]

-----------------------------------------------------------------------------
\* The group sudo names, or the user's number where it names none.
SudoGID(s) == IF s.gid = "" THEN s.uid ELSE s.gid
Numeric(s) == s.uid = "1000" /\ SudoGID(s) # "malformed"

\* The ids are set before the account is looked up.
SetFromSudo ==
    /\ upc = "sudo"
    /\ \E s \in SudoEnv, name \in {"", "account"} :
          /\ sudo' = s
          /\ \/ ~Numeric(s) /\ upc' = "current" /\ UNCHANGED user
             \/ /\ Numeric(s) /\ ~s.known
                /\ user' = [user EXCEPT !.UID = s.uid, !.GID = SudoGID(s)]
                /\ upc' = "current"
             \/ /\ Numeric(s) /\ s.known
                /\ user' = [user EXCEPT !.UID = s.uid, !.GID = SudoGID(s),
                                        !.HomeDir = "of the account", !.Name = name]
                /\ upc' = "config/solus"

\* Mutant: ids that are set are kept.
MutSetFromCurrentKeepsIds ==
    /\ upc = "current"
    /\ user' = [user EXCEPT !.UID = IF @ = "" THEN "0" ELSE @,
                            !.GID = IF @ = "" THEN "0" ELSE @,
                            !.HomeDir = "of $USERNAME"]
    /\ upc' = "config/solus"
    /\ UNCHANGED sudo

\* The test of the error is inverted: an account that is found is not used, and
\* one that is not is dereferenced.
SetFromCurrent ==
    /\ upc = "current"
    /\ \/ upc' = "panic" /\ user' = [user EXCEPT !.UID = "0", !.GID = "0"]
       \/ \E name \in {"", "$USERNAME"} :
             /\ user' = [user EXCEPT !.UID = "0", !.GID = "0",
                                     !.HomeDir = "of $USERNAME", !.Name = name]
             /\ upc' = "config/solus"
    /\ UNCHANGED sudo

-----------------------------------------------------------------------------
\* Mutant: the name is stored before the email is looked for.
MutTakeFromEarly(f) ==
    /\ upc = f
    /\ \E c \in Content :
          /\ user' = [user EXCEPT !.Name = IF c \in {"both", "no email"} THEN f ELSE @,
                                  !.Email = IF c = "both" THEN f ELSE @]
          /\ upc' = IF c \in HasBoth THEN "done" ELSE After[f]
    /\ UNCHANGED sudo

\* Name and email are taken together, of a file that has both keys, whatever
\* their values.
TakeFrom(f) ==
    /\ upc = f
    /\ \E c \in Content :
          \/ /\ c \in HasBoth
             /\ user' = [user EXCEPT
                            !.Name  = IF c \in {"empty name", "both empty"} THEN "" ELSE f,
                            !.Email = IF c \in {"empty email", "both empty"} THEN "" ELSE f]
             /\ upc' = "done"
          \/ c \notin HasBoth /\ upc' = After[f] /\ UNCHANGED user
    /\ UNCHANGED sudo

SetFromPackager == \E f \in Packager : TakeFrom(f)

SetFromGit == TakeFrom("gitconfig")

\* The end of GetUserInfo.  This test is inverted too: the host is named in an
\* email only if its name is not known.
Fallback ==
    /\ upc = "fallback"
    /\ \E email \in {"@host", "fallback"} :
          user' = [user EXCEPT !.Name = IF @ = "" THEN "fallback" ELSE @,
                               !.Email = IF @ = "" THEN email ELSE @]
    /\ upc' = "done"
    /\ UNCHANGED sudo

GetUserInfo == SetFromSudo \/ SetFromCurrent \/ SetFromPackager \/ SetFromGit \/ Fallback

-----------------------------------------------------------------------------
\* The account sudo names is used as a whole, or not at all if anything sudo says
\* is unusable: SetFromSudo may fail with the ids set, and neither those ids nor
\* that home directory are then left in what the build goes on with.  (What it
\* goes on with then are the ids of root and the home of $USERNAME, which is not
\* one account either.)
SudoAsAWhole ==
    upc \notin {"sudo", "current", "panic"} =>
        IF Numeric(sudo) /\ sudo.known
        THEN <<user.UID, user.GID, user.HomeDir>>
                = <<sudo.uid, SudoGID(sudo), "of the account">>
        ELSE /\ <<user.UID, user.GID>> = <<"0", "0">>
             /\ user.HomeDir # "of the account"

\* What a packager file or .gitconfig gives is taken from one file: its name and
\* its email, or the one of them that has a value and nothing for the other,
\* never with half of another file, of the account or of the fallback.  (The
\* other half may be missing: a key without a value is taken as it is.)
OneIdentity ==
    upc = "done" =>
        /\ user.Name \in File => user.Email \in {user.Name, ""}
        /\ user.Email \in File => user.Name \in {user.Email, ""}
=============================================================================
