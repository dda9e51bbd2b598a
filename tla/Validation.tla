------------------------------- MODULE Validation -------------------------------
(***************************************************************************)
(* What Register accepts (server/validation/validation.go and the hashing  *)
(* in server/models/auth/handler.go), for any texts a client may send.     *)
(*                                                                         *)
(* A text is a sequence of characters, told apart by the classes that the  *)
(* code looks at.  Lengths are lengths in bytes.                           *)
(***************************************************************************)
EXTENDS Integers, Sequences, FiniteSetsExt

CONSTANTS
    Characters,
    Word,          \* letters, digits and "_" of ASCII: the class of usernameRegex
    Space,         \* unicode.IsSpace
    Upper, Lower, Digit,   \* unicode.IsUpper, IsLower and IsDigit
    Wide,          \* characters that take two bytes in UTF-8
    MinUsernameLength, MaxUsernameLength,
    MinPasswordLength, MaxPasswordLength,
    HashLimit,     \* bytes that bcrypt takes: 72
    MaxText        \* bound: characters in a text

ASSUME ValidationAssumption ==
    /\ Word \subseteq Characters
    /\ Word \cap (Wide \cup Space) = {}
    /\ MinUsernameLength \in Nat \ {0} /\ MaxUsernameLength \in Nat
    /\ MinPasswordLength \in Nat /\ MaxPasswordLength \in Nat
    /\ HashLimit \in 0 .. MaxPasswordLength
    /\ MaxText \in Nat

VARIABLES
    username,   \* req.Username
    password,   \* req.Password
    answer      \* the status of the answer, or "insert" when Register goes on

validVars == <<username, password, answer>>

Texts == UNION {[1 .. n -> Characters] : n \in 0 .. MaxText}

\* len of a Go string.
Bytes(text) == Len(text) + Cardinality({i \in DOMAIN text : text[i] \in Wide})

Has(text, class) == \E i \in DOMAIN text : text[i] \in class

TrimSpace(text) ==
    LET kept == {i \in DOMAIN text : text[i] \notin Space}
    IN  IF kept = {} THEN <<>> ELSE SubSeq(text, Min(kept), Max(kept))

\* A slip: the regular expression has lost its "^" and "$".
ValidateUsernameUnanchored(text) ==
    LET name == TrimSpace(text)
    IN  /\ Bytes(name) \in MinUsernameLength .. MaxUsernameLength
        /\ Has(name, Word)

ValidateUsername(text) ==
    LET name == TrimSpace(text)
    IN  /\ Bytes(name) \in MinUsernameLength .. MaxUsernameLength
        /\ ~Has(name, Characters \ Word)

ValidatePassword(text) ==
    /\ Bytes(text) \in MinPasswordLength .. MaxPasswordLength
    /\ Has(text, Upper)
    /\ Has(text, Lower)
    /\ Has(text, Digit)

\* The texts of one request.  No check looks at both, so the run varies one of them
\* at a time.
ValidInit ==
    /\ username \in Texts
    /\ password \in Texts
    /\ answer = "none"

\* bcrypt.GenerateFromPassword refuses a long password, which is answered 500; the
\* name goes into the table as it came, not as it was trimmed.
Register ==
    /\ answer = "none"
    /\ answer' = IF ~ValidateUsername(username) \/ ~ValidatePassword(password) THEN "400"
                 ELSE IF Bytes(password) > HashLimit THEN "500" ELSE "insert"
    /\ UNCHANGED <<username, password>>

ValidSpec == ValidInit /\ [][Register]_validVars

--------------------------------------------------------------------------------

\* The rules of README.md:138-145 and 267: 3-50 characters, only letters, digits and
\* underscores; at least 8 characters, among them an upper case letter, a lower case
\* letter and a digit.
NameAsDocumented(text) ==
    /\ Len(text) \in MinUsernameLength .. MaxUsernameLength
    /\ \A i \in DOMAIN text : text[i] \in Word

PasswordAsDocumented(text) ==
    /\ Len(text) >= MinPasswordLength
    /\ \A class \in {Upper, Lower, Digit} : Has(text, class)

\* Where Register departs from these rules: a name is validated trimmed and stored as
\* it came; validation.go:48 counts bytes and calls them characters; a password that
\* is too long for bcrypt is refused, although the rules have no upper bound.
SpacesAround   == TrimSpace(username) # username
CountedInBytes == Len(password) < MinPasswordLength /\ Bytes(password) >= MinPasswordLength
BeyondHashing  == Bytes(password) > HashLimit

\* But for these three departures the rules decide: Register goes on to the INSERT
\* exactly for the names and passwords that the rules allow.
RulesDecide ==
    answer # "none" /\ ~SpacesAround /\ ~CountedInBytes /\ ~BeyondHashing =>
        (answer = "insert" <=> NameAsDocumented(username) /\ PasswordAsDocumented(password))

================================================================================
