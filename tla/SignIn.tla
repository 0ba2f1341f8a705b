------------------------------- MODULE SignIn -------------------------------
(***************************************************************************)
(* How the smart handler gets past a site's door: login, account, code     *)
(* (taskHandlers/smartApplyHandler.ts; handleLogin() of Workday's own      *)
(* configuration, platforms/workdayConfig.ts; Amazon's URLs).  A password  *)
(* is where it comes from, and whether the suffix 'aA1!' is on it.  The    *)
(* account outlives the job, and so does the handler's field               *)
(* loginAttempted.  (That a page which stays the same ends the loop is     *)
(* SmartApply's.)                                                          *)
(***************************************************************************)
EXTENDS Naturals

CONSTANTS
  MaxVisits,      (* MAX_FORM_PAGES *)
  MaxSignInJobs   (* bound: jobs one handler runs *)

ASSUME SignInAssumption == MaxVisits \in Nat /\ MaxSignInJobs \in Nat \ {0}

VARIABLES
  setting,        (* the platform; the passwords of the environment and the profile *)
  door,           (* what the site shows, and how its forms are built              *)
  account,        (* the user's account on the site                                *)
  sign,           (* where execute() is, and its locals                            *)
  attempted,      (* the handler's field loginAttempted                            *)
  lockedOut,      (* history: the refusals by an account of the handler's making    *)
  visitor         (* which of the handler's jobs this is                           *)

signVars == <<setting, door, account, sign, attempted, lockedOut, visitor>>

Settings ==
  [platform : {"generic", "amazon", "workday"}, env : {"none", "p"}, own : {"none", "p", "q"}]

Asks == {"password", "email", "consent", "chooser", "other"}
Doors == {"signin", "create", "gate", "challenge", "code", "inside"} \cup Asks

\* sso: a button for Google; link: from the form for accounts to that for logins;
\* confirm: the former asks for the password twice.
SiteDoors == [at : Doors, sso : BOOLEAN, link : BOOLEAN, confirm : BOOLEAN]

Passwords == [of : {"none", "p", "q", "fixed", "other"}, strong : BOOLEAN]
NoAccount == [pw |-> [of |-> "none", strong |-> FALSE], by |-> "nobody"]
Accounts == [pw : Passwords, by : {"nobody", "user", "handler"}]

\* What handleLogin() tries first: Workday's never looks at the profile.
LoginPassword ==
  IF setting.platform # "workday" /\ setting.own # "none" THEN setting.own ELSE setting.env

\* What handleAccountCreation() types.
CreationPassword ==
  LET base == IF setting.own # "none" THEN setting.own ELSE setting.env IN
  [of |-> IF base = "none" THEN "fixed" ELSE base, strong |-> TRUE]

-----------------------------------------------------------------------------
\* A password field is a login for the generic configuration, also on a form that
\* creates accounts; Workday's knows such a form, Amazon's knows it by its URL.
PageTypes(at) ==
  CASE at \in Asks -> {"login"}
    [] at = "challenge" -> {"phone_2fa"}
    [] at = "code" -> {"verification_code"}
    [] at = "signin" -> {"login"}
    [] at = "create" -> {IF setting.platform = "generic" THEN "login" ELSE "account_creation"}
    [] OTHER -> IF door.sso THEN {"login"} ELSE {"login", "account_creation"}

SignAt(pc) == sign' = [sign EXCEPT !.pc = pc]
Opens(ats) == \E at \in ats : door' = [door EXCEPT !.at = at]

DetectDoor ==
  /\ sign.pc = "detect" /\ door.at # "inside" /\ sign.visits < MaxVisits
  /\ \E type \in PageTypes(door.at) : sign' = [pc |-> type, visits |-> sign.visits + 1]
  /\ UNCHANGED <<setting, door, account, attempted, lockedOut, visitor>>

\* The application begins, or the limit of pages is reached.
SignInEnds ==
  /\ sign.pc = "detect" /\ (door.at = "inside" \/ sign.visits = MaxVisits)
  /\ SignAt("over")
  /\ UNCHANGED <<setting, door, account, attempted, lockedOut, visitor>>

LogsIn == sign.pc = "login" \/ (sign.pc = "account_creation" /\ ~attempted)

\* handleLogin() has come to its end.
LoginReturns == SignAt("detect") /\ attempted' = TRUE
LoginGoesOn(pc) == SignAt(pc) /\ UNCHANGED attempted

-----------------------------------------------------------------------------
\* Google's pages, one a call; the password is the environment's.
GooglePage(ask) ==
  /\ LogsIn /\ door.at = ask /\ LoginReturns
  /\ UNCHANGED <<setting, account, lockedOut, visitor>>

GoogleEmail == GooglePage("email") /\ Opens({"password", "other", "email"})
GooglePassword ==
  /\ GooglePage("password")
  /\ Opens({"password"} \cup IF setting.env = "none" THEN {} ELSE {"challenge", "consent", "inside"})
GoogleConsent == GooglePage("consent") /\ Opens({"inside", "consent"})
GoogleChooser == GooglePage("chooser") /\ Opens({"password", "consent", "inside"})
GoogleOther == GooglePage("other") /\ Opens(Asks \cup {"challenge"})

\* Google before everything else; Workday's code is content with a click.
SignInWithGoogle ==
  /\ LogsIn /\ door.at \in {"signin", "create", "gate"} /\ door.sso
  /\ LoginReturns
  /\ Opens(IF setting.platform = "workday" THEN Asks ELSE Asks \cup {door.at})
  /\ UNCHANGED <<setting, account, lockedOut, visitor>>

\* The form for accounts leads to the one for logins, or is filled as if it were.
ChooseView ==
  /\ LogsIn /\ door.at \in {"signin", "create"} /\ ~door.sso
  /\ Opens(IF door.link THEN {"signin"} ELSE {door.at})
  /\ LoginGoesOn("first")
  /\ UNCHANGED <<setting, account, lockedOut, visitor>>

\* No form: the LLM looks for one.  Workday's code fills what comes up at once.
FindSignIn ==
  /\ LogsIn /\ door.at = "gate" /\ ~door.sso
  /\ Opens({"signin", "create", "gate"})
  /\ IF setting.platform = "workday" /\ door'.at # "gate" THEN LoginGoesOn("first") ELSE LoginReturns
  /\ UNCHANGED <<setting, account, lockedOut, visitor>>

\* What a refusal adds to lockedOut: which attempt it was of, and whether the handler saw it.
Refusals == [on : {"first", "second"}, seen : BOOLEAN]
LeftOutside(seen) ==
  IF door.at = "signin" /\ account.by = "handler" THEN {[on |-> sign.pc, seen |-> seen]} ELSE {}

TypedPassword == [of |-> LoginPassword, strong |-> sign.pc = "second"]
MayTryAgain == sign.pc = "first" /\ LoginPassword # "none"

\* Let in, or to a code first.
LoginAccepted ==
  /\ sign.pc \in {"first", "second"}
  /\ door.at = "signin" /\ account # NoAccount /\ account.pw = TypedPassword
  /\ Opens({"inside", "code"}) /\ LoginReturns
  /\ UNCHANGED <<setting, account, lockedOut, visitor>>

\* Mutant: the handler gives up at the first refusal.
LoginRefusedOnce ==
  /\ sign.pc \in {"first", "second"}
  /\ door.at = "signin" => account = NoAccount \/ account.pw # TypedPassword
  /\ door.at = "create" => door.confirm \/ account # NoAccount \/ LoginPassword = "none"
  /\ LoginGoesOn("toCreate")
  /\ lockedOut' = lockedOut \cup LeftOutside(TRUE)
  /\ UNCHANGED <<setting, door, account, visitor>>

\* The site shows an error that the handler knows: once more with the suffix, if there
\* is a password, and then on to a new account.
LoginRefused ==
  /\ sign.pc \in {"first", "second"}
  /\ door.at = "signin" => account = NoAccount \/ account.pw # TypedPassword
  /\ door.at = "create" => door.confirm \/ account # NoAccount \/ LoginPassword = "none"
  /\ LoginGoesOn(IF MayTryAgain THEN "second" ELSE "toCreate")
  /\ lockedOut' = lockedOut \cup (IF MayTryAgain THEN {} ELSE LeftOutside(TRUE))
  /\ IF MayTryAgain /\ setting.platform = "workday" /\ door.link THEN Opens({"signin"})
                                                               ELSE UNCHANGED door
  /\ UNCHANGED <<setting, account, visitor>>

\* The site refuses in words that the handler does not know: it takes it for a success.
LoginRefusedUnseen ==
  /\ sign.pc \in {"first", "second"}
  /\ door.at = "signin" => account = NoAccount \/ account.pw # TypedPassword
  /\ lockedOut' = lockedOut \cup LeftOutside(FALSE)
  /\ UNCHANGED door /\ LoginReturns
  /\ UNCHANGED <<setting, account, visitor>>

\* A form for accounts that asks for the password once takes the login for a new user.
CreatedByLogin ==
  /\ sign.pc \in {"first", "second"} /\ LoginPassword # "none"
  /\ door.at = "create" /\ ~door.confirm /\ account = NoAccount
  /\ account' = [pw |-> TypedPassword, by |-> "handler"]
  /\ Opens({"inside", "code", "signin"}) /\ LoginReturns
  /\ UNCHANGED <<setting, lockedOut, visitor>>

GoToCreation ==
  /\ sign.pc = "toCreate"
  /\ Opens({"create", "gate", door.at}) /\ LoginReturns
  /\ UNCHANGED <<setting, account, lockedOut, visitor>>

-----------------------------------------------------------------------------
FillAccountForm ==
  /\ sign.pc = "account_creation" /\ attempted
  /\ \/ /\ door.at = "create" /\ account = NoAccount
        /\ account' = [pw |-> CreationPassword, by |-> "handler"]
        /\ Opens({"inside", "code", "signin"})
     \/ UNCHANGED account /\ Opens({"create", "gate", door.at})
  /\ SignAt("detect")
  /\ UNCHANGED <<setting, attempted, lockedOut, visitor>>

\* The code is read in Gmail, in a page of its own.
EnterMailedCode ==
  /\ sign.pc = "verification_code"
  /\ Opens({"inside", "signin", "code"})
  /\ SignAt("detect")
  /\ UNCHANGED <<setting, account, attempted, lockedOut, visitor>>

\* A challenge is a human's; no code in the mailbox, or an act() that failed.
SignInThrows ==
  /\ sign.pc \notin {"detect", "over"}
  /\ SignAt("over")
  /\ UNCHANGED <<setting, door, account, attempted, lockedOut, visitor>>

\* The user's next application on this site, by the same worker.
Return2Site ==
  /\ sign.pc = "over" /\ visitor < MaxSignInJobs
  /\ visitor' = visitor + 1
  /\ Opens({"signin", "create", "gate"})
  /\ sign' = [pc |-> "detect", visits |-> 0]
  /\ UNCHANGED <<setting, account, attempted, lockedOut>>

-----------------------------------------------------------------------------
\* The user may have come before, with a password that is ours or not.
SignInInit ==
  /\ setting \in Settings
  /\ door \in [at : {"signin", "create", "gate"}, sso : BOOLEAN, link : BOOLEAN, confirm : BOOLEAN]
  /\ account \in {NoAccount} \cup
       {[pw |-> [of |-> v, strong |-> FALSE], by |-> "user"] : v \in {"p", "other"}}
  /\ sign = [pc |-> "detect", visits |-> 0]
  /\ attempted = FALSE /\ lockedOut = {}
  /\ visitor = 1

AnswerGoogle == GoogleEmail \/ GooglePassword \/ GoogleConsent \/ GoogleChooser \/ GoogleOther

GetIn ==
  \/ DetectDoor \/ SignInEnds
  \/ AnswerGoogle \/ SignInWithGoogle \/ ChooseView \/ FindSignIn
  \/ LoginAccepted \/ LoginRefused \/ LoginRefusedUnseen \/ CreatedByLogin \/ GoToCreation
  \/ FillAccountForm \/ EnterMailedCode \/ SignInThrows

SignInNext == GetIn \/ Return2Site

SignInSpec == SignInInit /\ [][SignInNext]_signVars

-----------------------------------------------------------------------------
SignPcs == {"detect", "login", "account_creation", "phone_2fa", "verification_code",
            "first", "second", "toCreate", "over"}

\* The variables have their types.
SignInTypeOK ==
  /\ setting \in Settings /\ door \in SiteDoors /\ account \in Accounts
  /\ sign \in [pc : SignPcs, visits : 0..MaxVisits]
  /\ attempted \in BOOLEAN /\ lockedOut \subseteq Refusals
  /\ visitor \in 1..MaxSignInJobs

\* The handler is never left outside by an account that it has made itself, be it in an
\* earlier job or on the way to a code, whether it sees the refusal or takes it for a
\* success, with four exceptions: no password is configured, so that the account has the
\* fixed one, which no login tries; on Workday the profile has a password of its own,
\* which accounts are made with and logins leave aside; on Workday again, the account came
\* of a form for accounts filled as a login, on which a later login may spend the plain
\* password once more; and the site refuses the plain password in words that the handler
\* does not know, so that it never tries the suffix the account was made with.
LogsInToItsOwn ==
  \A r \in lockedOut :
    \/ LoginPassword = "none"
    \/ setting.platform = "workday" /\ setting.own \notin {"none", setting.env}
    \/ setting.platform = "workday" /\ ~account.pw.strong
    \/ r = [on |-> "first", seen |-> FALSE] /\ account.pw.strong
=============================================================================
