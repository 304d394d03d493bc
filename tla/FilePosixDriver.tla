---------------------------- MODULE FilePosixDriver ----------------------------
(***************************************************************************)
(* The driver that reads a line of columns from a file.  fetch replaces    *)
(* buf by the file's line and reports whether its hash changed; each read  *)
(* takes the next token with strtok, so what a read returns depends on the *)
(* reads before it, and on what they have cut out of buf.                  *)
(*                                                                         *)
(* A token is the column it stands in and the version of the line; what    *)
(* strtok finds in the memory of a line that was freed may be anything.    *)
(***************************************************************************)
EXTENDS Integers

CONSTANTS
    maxUpdateRefresh,  \* the throttle window of fetch, in clock ticks
    Widths,            \* how many tokens a line of the file may have
    HashLeft,          \* what the constructor may leave in current_hash
    Leftovers,         \* tokens that strtok may find in a line that was freed
    MaxVersion         \* bound: how often the line is replaced

ASSUME ThrottleAssumption == maxUpdateRefresh \in Nat
ASSUME WidthAssumption == Widths \subseteq Nat /\ MaxVersion \in Nat
ASSUME LeftoverAssumption == Leftovers \subseteq [col : Nat, ver : Nat]

VARIABLES
    file,          \* [kind, ver, width] of what the path leads to
    age,           \* ticks since last_fetch[""] (saturating)
    buf,           \* [ver, width, cut]; version 0 is a NULL buf
    pnt,           \* FALSE is a NULL pnt
    save,          \* strtok's own memory: the token that comes next in buf,
                   \* 0 when strtok was never called
    current_hash   \* the line hashed last

fileVars == <<file, age>>
tokenVars == <<buf, pnt, save>>
driverVars == <<file, age, buf, pnt, save, current_hash>>

NO_CHANGE == 80            \* DATA_IMPORT_NO_CHANGE, 0x50
NO_DATA == 81
CANNOT_ACCESS_DATA == 82

\* Seeded fault: the hash of the first sizeof(buf) characters only.
HashOfHead(ver, width) == <<0, width>>

\* simpleHash tells every two lines apart here.
Hash(ver, width) == <<ver, width>>

Init ==
    /\ file = [kind |-> "missing", ver |-> 0, width |-> 0]
    /\ age = maxUpdateRefresh + 1
    /\ buf = [ver |-> 0, width |-> 0, cut |-> FALSE]
    /\ pnt = FALSE
    /\ save = 0
    /\ current_hash \in HashLeft

-----------------------------------------------------------------------------
(* The process that writes the file.                                       *)

WriteLine(w) ==
    /\ file.ver < MaxVersion
    /\ file' = [kind |-> "line", ver |-> file.ver + 1, width |-> w]
    /\ UNCHANGED <<age, tokenVars, current_hash>>

\* The file is emptied or removed, or comes back with the same line.
ChangeKind(kind) ==
    /\ file.ver > 0
    /\ file.kind # kind
    /\ file' = [file EXCEPT !.kind = kind]
    /\ UNCHANGED <<age, tokenVars, current_hash>>

Tick ==
    /\ age <= maxUpdateRefresh
    /\ age' = age + 1
    /\ UNCHANGED <<file, tokenVars, current_hash>>

Environment ==
    \/ \E w \in Widths : WriteLine(w)
    \/ \E kind \in {"missing", "empty", "line"} : ChangeKind(kind)
    \/ Tick

-----------------------------------------------------------------------------
(* fetch                                                                   *)

Due == age > maxUpdateRefresh

Unchanged == current_hash = Hash(file.ver, file.width)

\* Seeded fault: nothing returned for a file that cannot be opened.
FetchCodeOfOpenFiles ==
    CASE ~Due \/ file.kind = "missing"     -> 0
      [] Due /\ file.kind = "empty"        -> NO_DATA
      [] Due /\ file.kind = "line"         -> IF Unchanged THEN NO_CHANGE ELSE 0

FetchCode ==
    CASE ~Due                              -> 0
      [] Due /\ file.kind = "missing"      -> CANNOT_ACCESS_DATA
      [] Due /\ file.kind = "empty"        -> NO_DATA
      [] Due /\ file.kind = "line"         -> IF Unchanged THEN NO_CHANGE ELSE 0

\* Within the window nothing is done: the tokens go on where they stood.
FetchThrottled ==
    /\ ~Due
    /\ UNCHANGED driverVars

\* pnt is reset even when no line arrives, and buf stays as the reads have
\* cut it then.
FetchNothing ==
    /\ Due
    /\ file.kind # "line"
    /\ age' = 0
    /\ pnt' = FALSE
    /\ UNCHANGED <<file, buf, save, current_hash>>

\* Seeded fault: the tokens not started over with a new line.
FetchKeepsPnt ==
    /\ Due
    /\ file.kind = "line"
    /\ age' = 0
    /\ buf' = [ver |-> file.ver, width |-> file.width, cut |-> FALSE]
    /\ current_hash' = Hash(file.ver, file.width)
    /\ UNCHANGED <<file, pnt, save>>

FetchLine ==
    /\ Due
    /\ file.kind = "line"
    /\ age' = 0
    /\ pnt' = FALSE
    /\ buf' = [ver |-> file.ver, width |-> file.width, cut |-> FALSE]
    /\ current_hash' = Hash(file.ver, file.width)
    /\ UNCHANGED <<file, save>>

Fetch == FetchThrottled \/ FetchNothing \/ FetchLine

-----------------------------------------------------------------------------
(* readDataOffset with a separator: strtok(buf) when pnt is NULL, which    *)
(* returns the first token and ends there when buf was cut before, and     *)
(* strtok(NULL) otherwise.  A token of column 0 is a NULL result.          *)

HasBuf == buf.ver > 0

NextToken ==
    IF pnt THEN IF save <= buf.width THEN save ELSE 0
    ELSE IF buf.width > 0 THEN 1 ELSE 0

LineToken == [col |-> NextToken, ver |-> buf.ver]

TakeLineToken(token) ==
    /\ HasBuf
    /\ token = LineToken
    /\ save' = IF pnt THEN save + 1
               ELSE IF buf.cut THEN buf.width + 1 ELSE 2
    /\ buf' = [buf EXCEPT !.cut = TRUE]

\* With buf NULL strtok gets a NULL whatever pnt is, and goes on in the line
\* that driverDeinit freed.  When it was never called the process ends: no
\* step.
TakeFreedToken(token) ==
    /\ ~HasBuf
    /\ save > 0
    /\ token \in Leftovers
    /\ UNCHANGED <<save, buf>>

TakeToken(token) ==
    /\ TakeLineToken(token) \/ TakeFreedToken(token)
    /\ pnt' = (token.col # 0)
    /\ UNCHANGED <<fileVars, current_hash>>

Next ==
    \/ Environment
    \/ Fetch
    \/ \E token \in {LineToken} \cup Leftovers : TakeToken(token)

Spec == Init /\ [][Next]_driverVars
===============================================================================
