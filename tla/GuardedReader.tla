---------------------------- MODULE GuardedReader ----------------------------
(***************************************************************************)
(* What one guarded IMAP connection hands to the parser                    *)
(* (guardedIMAPConn.Read): command lines up to a limit, each checked       *)
(* before the parser sees a byte of it, and the literals they announce, up *)
(* to a smaller limit before login than after it, together with a budget   *)
(* for all lines and literals of one command before login.                 *)
(*                                                                         *)
(* Bytes are counted, not looked at: a line is its length and the size of  *)
(* the literal it announces.  A size that does not fit 64 bits is refused  *)
(* like one above the limits, and stands among them.                       *)
(***************************************************************************)
EXTENDS Integers

CONSTANTS
  MaxLine,              \* maxLineBytes
  MaxPreAuthLiteral,    \* maxPreAuthLiteral
  MaxPreAuthCommand,    \* maxPreAuthCommand
  MaxAuthenticatedLit,  \* maxAuthenticatedLit
  LiteralSizes          \* the sizes that lines announce

ASSUME GuardedReaderAssumption ==
  /\ MaxLine \in Nat \ {0} /\ MaxPreAuthLiteral \in Nat /\ MaxPreAuthCommand \in Nat
  /\ MaxAuthenticatedLit \in Nat /\ LiteralSizes \subseteq Nat

VARIABLES
  pending,              \* bytes of the last line not handed out yet
  literalRemaining,     \* bytes of the announced literal not read yet
  preAuthCommandBytes,  \* lines and literals of the current command
  loggedIn,             \* the flag `authenticated`
  shutBy,               \* "none", or the limit that closed the connection
  given                 \* bytes handed out since the command began; not in the code

readerVars == <<pending, literalRemaining, preAuthCommandBytes, loggedIn, shutBy, given>>

NoLiteral == -1  \* the line announces none

Least(a, b) == IF a < b THEN a ELSE b

ReaderInit ==
  /\ pending = 0 /\ literalRemaining = 0 /\ preAuthCommandBytes = 0
  /\ loggedIn = FALSE /\ shutBy = "none" /\ given = 0

\* Read into a buffer of n bytes while a line is not handed out.
ReadPending(n) ==
  /\ shutBy = "none" /\ pending > 0
  /\ pending' = pending - Least(n, pending)
  /\ given' = given + Least(n, pending)
  /\ UNCHANGED <<literalRemaining, preAuthCommandBytes, loggedIn, shutBy>>

\* Read into a buffer of n bytes inside a literal.
ReadLiteral(n) ==
  /\ shutBy = "none" /\ pending = 0 /\ literalRemaining > 0
  /\ literalRemaining' = literalRemaining - Least(n, literalRemaining)
  /\ given' = given + Least(n, literalRemaining)
  /\ UNCHANGED <<pending, preAuthCommandBytes, loggedIn, shutBy>>

Size(literal) == IF literal = NoLiteral THEN 0 ELSE literal

LiteralLimit == IF loggedIn THEN MaxAuthenticatedLit ELSE MaxPreAuthLiteral

\* addPreAuthCommandBytes refuses; a mutant that looks at one line only.
OverBudget_Mutant(additional) == additional > MaxPreAuthCommand

OverBudget(additional) == additional > MaxPreAuthCommand - preAuthCommandBytes

\* The limit that a line of this length and literal breaks; addPreAuthCommandBytes
\* counts both, and lines after login are not counted.
Verdict(length, literal) ==
  CASE length > MaxLine -> "line"
    [] literal > LiteralLimit -> "literal"
    [] ~loggedIn /\ OverBudget(length + Size(literal)) -> "command"
    [] OTHER -> "none"

\* Read into a buffer of n bytes at the start of a line: readValidatedLine.
\* A line without a literal ends the command.
ReadLine(n, length, literal) ==
  /\ shutBy = "none" /\ pending = 0 /\ literalRemaining = 0
  /\ shutBy' = Verdict(length, literal)
  /\ IF shutBy' # "none" THEN UNCHANGED <<pending, literalRemaining, preAuthCommandBytes, given>>
     ELSE /\ pending' = length - Least(n, length)
          /\ literalRemaining' = Size(literal)
          /\ preAuthCommandBytes' =
               CASE loggedIn -> preAuthCommandBytes
                 [] literal = NoLiteral -> 0
                 [] OTHER -> preAuthCommandBytes + length + literal
          /\ given' = Least(n, length) + (IF preAuthCommandBytes = 0 THEN 0 ELSE given)
  /\ UNCHANGED loggedIn

\* markAuthenticated, between two commands of the connection.
LogIn ==
  /\ shutBy = "none" /\ ~loggedIn
  /\ pending = 0 /\ literalRemaining = 0 /\ preAuthCommandBytes = 0
  /\ loggedIn' = TRUE /\ given' = 0
  /\ UNCHANGED <<pending, literalRemaining, preAuthCommandBytes, shutBy>>

ReaderNext ==
  \/ \E n \in 1..(MaxLine + 1) : ReadPending(n) \/ ReadLiteral(n)
  \/ \E n, length \in 1..(MaxLine + 1), literal \in LiteralSizes \cup {NoLiteral} :
       ReadLine(n, length, literal)
  \/ LogIn

ReaderSpec == ReaderInit /\ [][ReaderNext]_readerVars

-----------------------------------------------------------------------------
(* Properties. *)

ReaderTypeOK ==
  /\ pending \in Nat /\ literalRemaining \in Nat /\ preAuthCommandBytes \in Nat
  /\ loggedIn \in BOOLEAN /\ given \in Nat
  /\ shutBy \in {"none", "line", "literal", "command"}

\* Before login the parser is given at most maxPreAuthCommand bytes of one
\* command, however the command is cut into lines, literals and reads.
CommandBounded == ~loggedIn => given + pending + literalRemaining <= MaxPreAuthCommand

\* The inductive invariant behind it: the budget counts what was and will be
\* given, and the unsigned subtraction in addPreAuthCommandBytes is not negative.
ReaderInv ==
  /\ ReaderTypeOK /\ CommandBounded
  /\ preAuthCommandBytes <= MaxPreAuthCommand
  /\ ~loggedIn /\ preAuthCommandBytes > 0 =>
       given + pending + literalRemaining = preAuthCommandBytes
  /\ ~loggedIn /\ preAuthCommandBytes = 0 => literalRemaining = 0

=============================================================================
