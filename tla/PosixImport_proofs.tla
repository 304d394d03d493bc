-------------------------- MODULE PosixImport_proofs --------------------------
(***************************************************************************)
(* Proofs about a control unit on its file driver, for any number of       *)
(* attributes, any lines of at least as many columns but one, and any      *)
(* order of fetches, failures, new lines and restarts: the unit is the     *)
(* unit over any driver, the columns stay aligned unless a throttled fetch *)
(* made the tokens run on, and no dataset mixes two lines unless the reads *)
(* went on in a line that was freed.                                       *)
(***************************************************************************)
EXTENDS PosixImport, TLAPS

USE DEF fileVars, tokenVars, driverVars, cuVars, historyVars, importVars

\* The attributes are numbered from 1 and take one value each.
LEMMA AttributeTypes ==
    /\ Len(attribute_off_len_vec) \in Nat
    /\ Attr = 1 .. Len(attribute_off_len_vec)
    /\ \A a \in Attr : attribute_off_len_vec[a].len = 1
<1> DEFINE AttributeOffLen ==
       [keybind : {""}, offset : Nat, len : {1},
        lbe : BOOLEAN, factor : BOOLEAN, type : CU!Type]
<1>1. attribute_off_len_vec \in Seq(AttributeOffLen)
  BY AttributeAssumption
<1>2. \A v \in AttributeOffLen : v.len = 1
  OBVIOUS
<1> HIDE DEF AttributeOffLen
<1>3. /\ Attr = 1 .. Len(attribute_off_len_vec)
      /\ Len(attribute_off_len_vec) \in Nat
      /\ \A a \in Attr : attribute_off_len_vec[a] \in AttributeOffLen
  BY <1>1 DEF Attr
<1> QED
  BY <1>2, <1>3

-----------------------------------------------------------------------------
(* The types of the driver, and what the line in buf has to do with the    *)
(* hash: a line is hashed when it is fetched, and the hash outlives it.    *)

FileType ==
    /\ file.kind \in {"missing", "empty", "line"}
    /\ file.ver \in Nat
    /\ file.kind = "line" => file.ver > 0
    /\ file.ver > 0 => file.width \in Widths

BufType ==
    /\ buf.ver \in Nat
    /\ HasBuf => buf.width \in Widths /\ current_hash = Hash(buf.ver, buf.width)
    /\ pnt \in BOOLEAN
    /\ save \in Nat

DriverInv == FileType /\ BufType

LEMMA DriverStart == Init => DriverInv
<1> SUFFICES ASSUME Init PROVE DriverInv
  OBVIOUS
<1>1. /\ file.kind = "missing" /\ file.ver = 0 /\ buf.ver = 0
      /\ pnt = FALSE /\ save = 0
  BY DEF Init
<1>2. FileType
  BY <1>1 DEF FileType
<1>3. BufType
  <2>1. pnt \in BOOLEAN
    BY <1>1
  <2>2. buf.ver \in Nat /\ ~HasBuf /\ save \in Nat
    BY <1>1 DEF HasBuf
  <2> QED
    BY <2>1, <2>2 DEF BufType
<1> QED
  BY <1>2, <1>3 DEF DriverInv

\* No step of the environment, of fetch or of a read breaks it.
LEMMA DriverStep ==
    ASSUME DriverInv, Environment \/ Fetch \/ \E token : TakeToken(token)
    PROVE  DriverInv'
<1> USE WidthAssumption
<1>1. ASSUME NEW w \in Widths, WriteLine(w) PROVE DriverInv'
  BY <1>1 DEF WriteLine, DriverInv, FileType, BufType, HasBuf
<1>2. ASSUME NEW kind \in {"missing", "empty", "line"}, ChangeKind(kind)
      PROVE  DriverInv'
  BY <1>2 DEF ChangeKind, DriverInv, FileType, BufType, HasBuf
<1>3. CASE Tick \/ FetchThrottled \/ FetchNothing
  BY <1>3 DEF Tick, FetchThrottled, FetchNothing, DriverInv, FileType, BufType,
              HasBuf
<1>4. CASE FetchLine
  BY <1>4 DEF FetchLine, DriverInv, FileType, BufType, HasBuf
<1>5. ASSUME NEW token, TakeToken(token) PROVE DriverInv'
  <2>1. pnt' \in BOOLEAN /\ UNCHANGED <<file, current_hash>>
    BY <1>5 DEF TakeToken
  <2>2. CASE TakeLineToken(token)
    <3>1. /\ buf' = [buf EXCEPT !.cut = TRUE] /\ HasBuf
          /\ save' = IF pnt THEN save + 1
                     ELSE IF buf.cut THEN buf.width + 1 ELSE 2
      BY <2>2 DEF TakeLineToken
    <3>2. save' \in Nat
      BY <3>1 DEF DriverInv, BufType
    <3> QED
      BY <2>1, <3>1, <3>2 DEF DriverInv, FileType, BufType, HasBuf
  <2>3. CASE TakeFreedToken(token)
    BY <2>1, <2>3 DEF TakeFreedToken, DriverInv, FileType, BufType, HasBuf
  <2> QED
    BY <1>5, <2>2, <2>3 DEF TakeToken
<1> QED
  BY <1>1, <1>2, <1>3, <1>4, <1>5 DEF Environment, Fetch

\* What fetch returns.
LEMMA FetchCodes ==
    ASSUME DriverInv
    PROVE  /\ FetchCode \in {0, NO_CHANGE, NO_DATA, CANNOT_ACCESS_DATA}
           /\ Due /\ FetchCode = 0 => file.kind = "line"
           /\ FetchCode # 0 => Due
<1> USE DEF NO_CHANGE, NO_DATA, CANNOT_ACCESS_DATA, DriverInv, FileType
<1>1. CASE ~Due
  BY <1>1 DEF FetchCode
<1>2. CASE Due /\ file.kind = "missing"
  BY <1>2 DEF FetchCode
<1>3. CASE Due /\ file.kind = "empty"
  BY <1>3 DEF FetchCode
<1>4. CASE Due /\ file.kind = "line"
  BY <1>4 DEF FetchCode
<1> QED
  BY <1>1, <1>2, <1>3, <1>4

\* What a read may take: a column of the line, a leftover, or none.
LEMMA TokenType ==
    ASSUME DriverInv, NEW token \in {LineToken} \cup Leftovers
    PROVE  token.col \in Nat /\ token.ver \in Nat
<1>1. NextToken \in Nat /\ buf.ver \in Nat
  BY WidthAssumption DEF NextToken, DriverInv, BufType
<1> QED
  BY <1>1, LeftoverAssumption DEF LineToken

-----------------------------------------------------------------------------
(* The unit on this driver is the unit on any driver.                      *)

LEMMA ParsedType ==
    ASSUME NEW col \in Nat, NEW ver \in Nat
    PROVE  Parsed(col, ver) \in [{0} -> Value]
BY DEF Parsed, Value

\* Every attribute holds one value, whatever it was read from.
ValueInv ==
    /\ DOMAIN buffer = Attr
    /\ \A a \in Attr : buffer[a].bytes \in [{0} -> Value]

LEMMA LeftType ==
    ASSUME ValueInv, NEW a \in Attr PROVE Left(a) \in [{0} -> Value]
<1>1. buffer[a].bytes \in [{0} -> Value] /\ buffer[a].bytes[0].ver \in Nat
  BY DEF ValueInv, Value
<1> QED
  BY <1>1, ParsedType DEF Left

LEMMA FilterType ==
    ASSUME NEW a \in Attr, NEW b \in [{0} -> Value]
    PROVE  CU!Filter(a, b).bytes \in [{0} -> Value]
BY AttributeTypes DEF CU!Filter, CU!Reversed

LEMMA FreshType ==
    ASSUME NEW a \in Attr PROVE CU!Fresh(a).bytes \in [{0} -> Value]
BY AttributeTypes DEF CU!Fresh, CU!Raw, NoValue, Value

LEMMA DriverInvStep ==
    DriverInv /\ [ImportNext]_importVars => DriverInv'
<1> SUFFICES ASSUME DriverInv, [ImportNext]_importVars PROVE DriverInv'
  OBVIOUS
<1>1. CASE FetchNewDatablock \/ Environment
  BY <1>1, DriverStep DEF FetchNewDatablock
<1>2. ASSUME NEW a \in Attr, ReadToken(a) PROVE DriverInv'
  BY <1>2, DriverStep DEF ReadToken
<1>3. CASE StartCycle \/ EndCycle \/ UnitLife \/ UNCHANGED importVars
  BY <1>3 DEF StartCycle, EndCycle, UnitLife, DriverInv, FileType, BufType, HasBuf
<1>4. CASE DriverRestart
  BY <1>4 DEF DriverRestart, DriverInv, FileType, BufType, HasBuf
<1> QED
  BY <1>1, <1>2, <1>3, <1>4 DEF ImportNext, UnitStep

THEOREM DriverInvariant == ImportSpec => []DriverInv
<1>1. ImportInit => DriverInv
  BY DriverStart DEF ImportInit
<1> QED
  BY <1>1, DriverInvStep, PTL DEF ImportSpec

\* What the actions of the unit assign, as far as the invariants are concerned.
LEMMA UnitEffects ==
    /\ CU!StartCycle =>
         cu_pc = "idle" /\ cu_pc' = "fetch" /\ ai' = 1 /\ UNCHANGED buffer
    /\ \A err : CU!FetchReturned(err) =>
         /\ cu_pc = "fetch" /\ cu_pc' = IF err = 0 THEN "read" ELSE "idle"
         /\ UNCHANGED <<ai, buffer>>
    /\ \A a, b : CU!ReadOk(a, b) =>
         /\ cu_pc = "read" /\ cu_pc' = "read" /\ a = ai /\ ai' = ai + 1
         /\ buffer' = [buffer EXCEPT ![a] = CU!Filter(a, b)]
    /\ \A a, left : CU!ReadFailed(a, left) =>
         /\ cu_pc = "read" /\ cu_pc' = "read" /\ a = ai /\ ai' = ai + 1
         /\ buffer' = [buffer EXCEPT ![a] = left]
    /\ CU!EndCycle =>
         /\ cu_pc = "read" /\ ai \notin Attr /\ cu_pc' = "idle"
         /\ UNCHANGED <<ai, buffer>>
    /\ CU!Life =>
         /\ cu_pc \in {"idle", "failed", "down"}
         /\ cu_pc' \in {"idle", "failed", "down"}
         /\ buffer' = buffer \/ buffer' = [a \in Attr |-> CU!Fresh(a)]
BY DEF CU!StartCycle, CU!FetchReturned, CU!ReadOk, CU!ReadFailed, CU!AtAttribute,
       CU!EndCycle, CU!Life, CU!UnitInit, CU!UnitInitThrows, CU!UnitDeinit,
       CU!Attr, Attr

LEMMA ValueStart == ImportInit => ValueInv
<1> SUFFICES ASSUME ImportInit PROVE ValueInv
  OBVIOUS
<1>1. buffer = [a \in Attr |-> CU!Fresh(a)]
  BY DEF ImportInit, CU!Init, CU!Attr, Attr
<1> QED
  BY <1>1, FreshType DEF ValueInv

LEMMA ValueStep ==
    DriverInv /\ ValueInv /\ [ImportNext]_importVars => ValueInv'
<1> SUFFICES ASSUME DriverInv, ValueInv, [ImportNext]_importVars
             PROVE  ValueInv'
  OBVIOUS
<1>1. CASE UNCHANGED buffer
  BY <1>1 DEF ValueInv
<1>2. ASSUME NEW a \in Attr, ReadToken(a) PROVE ValueInv'
  <2>1. PICK token \in {LineToken} \cup Leftovers :
            TakesWord(a, token) \/ TakesNone(a, token) \/ TakesNumber(a, token)
    BY <1>2 DEF ReadToken
  <2>2. ASSUME NEW b \in [{0} -> Value], CU!ReadOk(a, b) PROVE ValueInv'
    <3>1. buffer' = [buffer EXCEPT ![a] = CU!Filter(a, b)]
      BY <2>2, UnitEffects
    <3> QED
      BY <2>2, <3>1, FilterType DEF ValueInv
  <2>3. CASE TakesNone(a, token)
    <3>1. buffer' = [buffer EXCEPT ![a] = buffer[a]]
      BY <2>3, UnitEffects DEF TakesNone
    <3> QED
      BY <3>1 DEF ValueInv
  <2> QED
    BY <2>1, <2>2, <2>3, TokenType, ParsedType, LeftType DEF TakesWord, TakesNumber
<1>3. CASE UnitLife
  <2>1. buffer' = buffer \/ buffer' = [a \in Attr |-> CU!Fresh(a)]
    BY <1>3, UnitEffects DEF UnitLife
  <2> QED
    BY <2>1, FreshType DEF ValueInv
<1>4. CASE StartCycle \/ FetchNewDatablock \/ EndCycle
  BY <1>1, <1>4, UnitEffects DEF StartCycle, FetchNewDatablock, EndCycle
<1>5. CASE DriverRestart \/ (Environment /\ UNCHANGED <<cuVars, historyVars>>)
           \/ UNCHANGED importVars
  BY <1>1, <1>5 DEF DriverRestart
<1> QED
  BY <1>2, <1>3, <1>4, <1>5 DEF ImportNext, UnitStep

THEOREM ValueInvariant == ImportSpec => []ValueInv
BY ValueStart, ValueStep, DriverInvariant, PTL DEF ImportSpec

\* Every step is a step of the unit over some driver, or leaves it alone.
LEMMA UnitIsStep ==
    DriverInv /\ ValueInv /\ [ImportNext]_importVars => [CU!Next]_cuVars
<1> SUFFICES ASSUME DriverInv, ValueInv, [ImportNext]_importVars
             PROVE  [CU!Next]_cuVars
  OBVIOUS
<1>1. CASE StartCycle \/ EndCycle \/ UnitLife
  BY <1>1 DEF StartCycle, EndCycle, UnitLife, CU!Next
<1>2. CASE FetchNewDatablock
  BY <1>2, FetchCodes DEF FetchNewDatablock, CU!Next
<1>3. ASSUME NEW a \in Attr, ReadToken(a) PROVE CU!Next
  <2>1. a \in CU!Attr
    BY DEF Attr, CU!Attr
  <2>2. PICK token \in {LineToken} \cup Leftovers :
            TakesWord(a, token) \/ TakesNone(a, token) \/ TakesNumber(a, token)
    BY <1>3 DEF ReadToken
  <2>3. CASE CU!ReadFailed(a, buffer[a])
    BY <2>1, <2>3 DEF CU!Next
  <2>4. ASSUME NEW b \in [{0} -> Value], CU!ReadOk(a, b) PROVE CU!Next
    BY <2>1, <2>4 DEF CU!Next, Attr
  <2> QED
    BY <2>2, <2>3, <2>4, TokenType, ParsedType, LeftType
       DEF TakesWord, TakesNone, TakesNumber
<1>4. CASE DriverRestart \/ (Environment /\ UNCHANGED <<cuVars, historyVars>>)
           \/ UNCHANGED importVars
  BY <1>4 DEF DriverRestart
<1> QED
  BY <1>1, <1>2, <1>3, <1>4 DEF ImportNext, UnitStep

\* The unit on the file driver implements the unit over any driver, through
\* any restarts: what is proved of the one holds of the other.
THEOREM ImplementsUnit == ImportSpec => CU!Spec
<1>1. ImportInit => CU!Init
  BY DEF ImportInit
<1>2. DriverInv /\ ValueInv /\ [ImportNext]_importVars => [CU!Next]_(CU!cuVars)
  BY UnitIsStep DEF CU!cuVars
<1> QED
  BY <1>1, <1>2, DriverInvariant, ValueInvariant, PTL DEF ImportSpec, CU!Spec

-----------------------------------------------------------------------------
(* The columns.  A line that was fetched outlives its hash's next change,  *)
(* through restarts that free it: between two read loops the attributes    *)
(* that were read are those of the line hashed last.  In a read loop they  *)
(* are those of the line in buf, and the next token is the next column     *)
(* until the line ends, which only the last attribute may find when every  *)
(* line is wide enough.                                                    *)

\* Only the last attribute may be without a column.
WideEnough == \A w \in Widths : w + 1 >= Len(attribute_off_len_vec)

\* The line hashed last is line ver.
Hashed(ver) == \E w \in Widths : current_hash = Hash(ver, w)

ReadsStand ==
    /\ cu_pc = "fetch" => ai = 1
    /\ cu_pc = "read" => ai \in 1 .. (Len(attribute_off_len_vec) + 1)
    /\ cu_pc = "read" /\ ~HasBuf /\ ~stale => ai = 1
    /\ stale => throttled
    /\ DOMAIN buffer = Attr

NextColumn ==
    cu_pc = "read" /\ ~throttled =>
        /\ HasBuf
        /\ WideEnough => \/ ai = 1 /\ ~pnt /\ ~buf.cut
                         \/ pnt /\ save = ai
                         \/ ~pnt /\ ai > Len(attribute_off_len_vec)

\* Attribute a was read from line ver, unless from one that was freed, and
\* from its own column unless the tokens ran on.
From(a, ver) ==
    /\ ~stale => buffer[a].bytes[0].ver = ver
    /\ ~throttled /\ WideEnough => buffer[a] = Own(a, ver)

ReadFromLine ==
    cu_pc = "read" /\ HasBuf =>
        \A a \in Attr \ missed : a < ai => From(a, buf.ver)

KeptFromLine ==
    cu_pc # "read" =>
        \A ver \in Nat \ {0} : Hashed(ver) =>
            \A a \in Attr \ missed : From(a, ver)

ColumnInv ==
    /\ ReadsStand
    /\ NextColumn
    /\ ReadFromLine
    /\ KeptFromLine

\* The constructor leaves no line's hash in current_hash.
NoHashLeft == \A ver \in Nat \ {0}, w \in Widths : Hash(ver, w) \notin HashLeft

\* One value converted is one value of the same line.
LEMMA OwnVersion ==
    ASSUME NEW a \in Attr, NEW col, NEW ver
    PROVE  CU!Filter(a, Parsed(col, ver)).bytes[0].ver = ver
BY AttributeTypes DEF CU!Filter, CU!Reversed, Parsed

LEMMA ColumnStart == ASSUME NoHashLeft, ImportInit PROVE ColumnInv
<1>1. /\ cu_pc = "idle" /\ DOMAIN buffer = Attr /\ ~stale
  BY DEF ImportInit, CU!Init, CU!Attr, Attr
<1>2. \A ver \in Nat \ {0} : ~Hashed(ver)
  BY DEF ImportInit, Init, NoHashLeft, Hashed
<1> QED
  BY <1>1, <1>2 DEF ColumnInv, ReadsStand, NextColumn, ReadFromLine, KeptFromLine

\* A fetch that returns 0 starts the tokens over or was throttled, any other
\* leaves what was read and the line it was read from.
LEMMA FetchKeeps ==
    ASSUME DriverInv, ColumnInv, FetchNewDatablock PROVE ColumnInv'
<1>1. /\ Fetch /\ cu_pc = "fetch" /\ ai = 1
      /\ cu_pc' = IF FetchCode = 0 THEN "read" ELSE "idle"
      /\ missed' = IF FetchCode = 0 THEN {} ELSE missed
      /\ throttled' = IF FetchCode = 0 THEN ~Due ELSE throttled
      /\ stale' = IF FetchCode = 0 THEN FALSE ELSE stale
      /\ UNCHANGED <<ai, buffer>>
  BY UnitEffects DEF FetchNewDatablock, ColumnInv, ReadsStand
<1>2. ReadsStand'
  BY <1>1, AttributeTypes DEF ColumnInv, ReadsStand
<1>3. CASE FetchCode = 0
  <2>1. \A a \in Attr : ~(a < ai')
    BY <1>1, AttributeTypes
  <2>2. NextColumn'
    <3>1. Due => FetchLine
      BY <1>1, <1>3, FetchCodes DEF Fetch, FetchThrottled, FetchNothing
    <3>2. Due => HasBuf' /\ ~pnt' /\ ~(buf.cut)'
      BY <3>1 DEF FetchLine, HasBuf, DriverInv, FileType
    <3> QED
      BY <1>1, <1>3, <3>2 DEF NextColumn
  <2> QED
    BY <1>1, <1>2, <1>3, <2>1, <2>2 DEF ColumnInv, ReadFromLine, KeptFromLine
<1>4. CASE FetchCode # 0
  <2>1. UNCHANGED current_hash
    <3>1. CASE FetchLine
      <4>1. file.kind = "line" /\ Due
        BY <3>1 DEF FetchLine
      <4>2. Unchanged
        BY <1>4, <4>1 DEF FetchCode
      <4> QED
        BY <3>1, <4>2 DEF FetchLine, Unchanged
    <3>2. CASE FetchThrottled \/ FetchNothing
      BY <3>2 DEF FetchThrottled, FetchNothing
    <3> QED
      BY <1>1, <3>1, <3>2 DEF Fetch
  <2> QED
    BY <1>1, <1>2, <1>4, <2>1
       DEF ColumnInv, NextColumn, ReadFromLine, KeptFromLine, Hashed, From, Own
<1> QED
  BY <1>3, <1>4

\* A read takes the next column, and the line's end is found by the last
\* attribute at the earliest.
LEMMA TokenIsNext ==
    ASSUME DriverInv, ColumnInv, WideEnough, cu_pc = "read",
           NEW token, TakeToken(token), ~throttled, ai \in Attr
    PROVE  /\ token.col \in {0, ai}
           /\ pnt' => save' = ai + 1
           /\ ~pnt' => ai + 1 > Len(attribute_off_len_vec)
<1> DEFINE n == Len(attribute_off_len_vec)
<1>1. n \in Nat /\ ai \in 1 .. n
  BY AttributeTypes
<1>2. HasBuf
  BY DEF ColumnInv, NextColumn
<1>3. buf.width \in Nat /\ buf.width + 1 >= n
  BY <1>2, WidthAssumption DEF DriverInv, BufType, WideEnough
<1>4. /\ pnt' <=> NextToken # 0
      /\ save' = IF pnt THEN save + 1 ELSE IF buf.cut THEN buf.width + 1 ELSE 2
      /\ token.col = NextToken
  <2>1. TakeLineToken(token)
    BY <1>2 DEF TakeToken, TakeFreedToken
  <2>2. token.col = NextToken
    BY <2>1 DEF TakeLineToken, LineToken
  <2>3. pnt' <=> token.col # 0
    BY DEF TakeToken
  <2> QED
    BY <2>1, <2>2, <2>3 DEF TakeLineToken
<1>5. CASE ai = 1 /\ ~pnt /\ ~buf.cut
  BY <1>1, <1>3, <1>4, <1>5 DEF NextToken
<1>6. CASE pnt /\ save = ai
  BY <1>1, <1>3, <1>4, <1>6 DEF NextToken
<1>7. ~(ai > n)
  BY <1>1
<1> QED
  BY <1>5, <1>6, <1>7 DEF ColumnInv, NextColumn

LEMMA TokenKeeps ==
    ASSUME DriverInv, ColumnInv, NEW a \in Attr, ReadToken(a)
    PROVE  ColumnInv'
<1>1. PICK token \in {LineToken} \cup Leftovers :
          /\ TakeToken(token)
          /\ TakesWord(a, token) \/ TakesNone(a, token) \/ TakesNumber(a, token)
  BY DEF ReadToken
<1>2. /\ (buf.ver)' = buf.ver
      /\ cu_pc = "read" /\ cu_pc' = "read" /\ a = ai /\ ai' = ai + 1
      /\ throttled' = throttled /\ stale' = (stale \/ ~HasBuf)
  <2>1. (buf.ver)' = buf.ver
    <3>1. CASE TakeLineToken(token)
      BY <3>1 DEF TakeLineToken, HasBuf
    <3>2. CASE TakeFreedToken(token)
      BY <3>2 DEF TakeFreedToken
    <3> QED
      BY <1>1, <3>1, <3>2 DEF TakeToken
  <2> QED
    BY <1>1, <2>1, UnitEffects DEF ReadToken, TakesWord, TakesNone, TakesNumber
<1>3. PICK b : buffer' = [buffer EXCEPT ![a] = b]
  BY <1>1, UnitEffects DEF TakesWord, TakesNone, TakesNumber
<1>4. HasBuf' <=> HasBuf
  BY <1>2 DEF HasBuf
<1>5. ReadsStand'
  <2>1. stale' => throttled'
    BY <1>2 DEF ColumnInv, ReadsStand, NextColumn
  <2>2. ~HasBuf' => stale'
    BY <1>2, <1>4
  <2>3. ai' \in 1 .. (Len(attribute_off_len_vec) + 1) /\ DOMAIN buffer' = Attr
    BY <1>2, <1>3, AttributeTypes DEF ColumnInv, ReadsStand
  <2> QED
    BY <1>2, <2>1, <2>2, <2>3 DEF ReadsStand
<1>6. NextColumn'
  <2>1. ~throttled /\ WideEnough =>
           /\ pnt' => save' = ai + 1
           /\ ~pnt' => ai + 1 > Len(attribute_off_len_vec)
    BY <1>1, <1>2, TokenIsNext
  <2>2. pnt' \in BOOLEAN
    BY <1>1 DEF TakeToken
  <2> QED
    BY <1>2, <1>4, <2>1, <2>2 DEF ColumnInv, NextColumn
<1>7. ReadFromLine'
  <2> SUFFICES ASSUME HasBuf, NEW o \in Attr \ missed', o < ai'
               PROVE  From(o, buf.ver)'
    BY <1>2, <1>4 DEF ReadFromLine
  <2>1. missed \subseteq missed'
    BY <1>1 DEF TakesWord, TakesNone, TakesNumber
  <2>2. CASE o = a
    <3>1. TakesNumber(a, token)
      BY <1>1, <2>2 DEF TakesWord, TakesNone
    <3>2. buffer'[a] = CU!Filter(a, Parsed(token.col, token.ver))
      BY <3>1, UnitEffects DEF TakesNumber, ColumnInv, ReadsStand
    <3>3. token.ver = buf.ver
      BY <1>1 DEF TakeToken, TakeLineToken, TakeFreedToken, LineToken
    <3>4. buffer'[a].bytes[0].ver = buf.ver
      BY <3>2, <3>3, OwnVersion
    <3>5. ~throttled /\ WideEnough => token.col = a
      BY <1>1, <1>2, <3>1, TokenIsNext DEF TakesNumber
    <3> QED
      BY <1>2, <2>2, <3>2, <3>3, <3>4, <3>5 DEF From, Own
  <2>3. CASE o # a
    <3>1. o < ai
      BY <1>2, <2>3, AttributeTypes
    <3>2. From(o, buf.ver)
      BY <1>2, <2>1, <3>1 DEF ColumnInv, ReadFromLine
    <3>3. buffer'[o] = buffer[o]
      BY <1>3, <2>3 DEF ColumnInv, ReadsStand
    <3> QED
      BY <1>2, <3>2, <3>3 DEF From, Own
  <2> QED
    BY <2>2, <2>3
<1> QED
  BY <1>2, <1>5, <1>6, <1>7 DEF ColumnInv, KeptFromLine

\* The end of a read loop keeps what was read from the line hashed last.
LEMMA EndKeeps == ASSUME DriverInv, ColumnInv, EndCycle PROVE ColumnInv'
<1>1. /\ cu_pc = "read" /\ cu_pc' = "idle" /\ ai \notin Attr
      /\ UNCHANGED <<ai, buffer, driverVars, historyVars>>
  BY UnitEffects DEF EndCycle
<1>2. \A a \in Attr : a < ai
  BY <1>1, AttributeTypes DEF ColumnInv, ReadsStand
<1>3. KeptFromLine'
  <2>0. SUFFICES ASSUME NEW ver \in Nat \ {0}, Hashed(ver),
                        NEW a \in Attr \ missed
                 PROVE  From(a, ver)
    <3>1. \A ver : Hashed(ver)' <=> Hashed(ver)
      BY <1>1 DEF Hashed
    <3>2. \A a, ver : From(a, ver) => From(a, ver)'
      BY <1>1 DEF From, Own
    <3> QED
      BY <1>1, <2>0, <3>1, <3>2 DEF KeptFromLine
  <2>1. CASE ~HasBuf
    <3>1. stale \/ ai = 1
      BY <1>1, <2>1 DEF ColumnInv, ReadsStand
    <3>2. ai = 1 => Attr = {}
      BY <1>1, AttributeTypes
    <3>3. stale => throttled
      BY DEF ColumnInv, ReadsStand
    <3> QED
      BY <2>0, <3>1, <3>2, <3>3 DEF From
  <2>2. ASSUME HasBuf PROVE buf.ver = ver
    <3>1. PICK w \in Widths : current_hash = <<ver, w>>
      BY <2>0 DEF Hashed, Hash
    <3>2. current_hash = <<buf.ver, buf.width>>
      BY <2>2 DEF Hash, DriverInv, BufType
    <3>3. current_hash[1] = ver
      BY <3>1
    <3>4. current_hash[1] = buf.ver
      BY <3>2
    <3> QED
      BY <3>3, <3>4
  <2> QED
    BY <1>1, <1>2, <2>0, <2>1, <2>2 DEF ColumnInv, ReadFromLine
<1> QED
  BY <1>1, <1>3 DEF ColumnInv, ReadsStand, NextColumn, ReadFromLine

LEMMA ColumnStep ==
    DriverInv /\ ColumnInv /\ [ImportNext]_importVars => ColumnInv'
<1> SUFFICES ASSUME DriverInv, ColumnInv, [ImportNext]_importVars
             PROVE  ColumnInv'
  OBVIOUS
<1> USE DEF ColumnInv, ReadsStand, NextColumn, ReadFromLine, KeptFromLine,
            Hashed, From, Own, HasBuf
<1>1. CASE StartCycle
  BY <1>1, UnitEffects DEF StartCycle
<1>2. CASE UnitLife
  <2>1. /\ cu_pc \in {"idle", "failed", "down"}
        /\ cu_pc' \in {"idle", "failed", "down"}
        /\ UNCHANGED <<driverVars, throttled, stale>>
        /\ buffer' = buffer \/ missed' = Attr
        /\ buffer' = buffer => missed' = missed
        /\ DOMAIN buffer' = Attr
    BY <1>2, UnitEffects DEF UnitLife
  <2> QED
    BY <2>1
<1>3. CASE DriverRestart
  BY <1>3 DEF DriverRestart
<1>4. CASE (Environment /\ UNCHANGED <<cuVars, historyVars>>)
           \/ UNCHANGED importVars
  <2>1. UNCHANGED <<buf, pnt, save, current_hash, cuVars, historyVars>>
    BY <1>4 DEF Environment, WriteLine, ChangeKind, Tick
  <2> QED
    BY <2>1
<1> QED
  BY <1>1, <1>2, <1>3, <1>4, FetchKeeps, TokenKeeps, EndKeeps
     DEF ImportNext, UnitStep

\* The invariant, for a new driver that holds no line's hash.
THEOREM ColumnInvariant ==
    ASSUME NoHashLeft PROVE ImportSpec => []ColumnInv
<1>1. ImportInit => ColumnInv
  BY ColumnStart
<1>2. DriverInv /\ ColumnInv /\ [ImportNext]_importVars => ColumnInv'
  BY ColumnStep
<1> QED
  BY <1>1, <1>2, DriverInvariant, PTL DEF ImportSpec

\* Unless a throttled fetch made the tokens run on, an attribute that was
\* read holds its own column of the line.
THEOREM ColumnsStayAligned ==
    ASSUME NoHashLeft, WideEnough PROVE ImportSpec => []ColumnsAligned
<1>1. DriverInv /\ ColumnInv => ColumnsAligned
  <2> SUFFICES ASSUME DriverInv, ColumnInv, cu_pc = "idle", ~throttled, HasBuf,
                      NEW a \in Attr \ missed
               PROVE  buffer[a] = Own(a, buf.ver)
    BY DEF ColumnsAligned
  <2>1. buf.ver \in Nat \ {0} /\ Hashed(buf.ver)
    BY DEF DriverInv, BufType, HasBuf, Hashed
  <2> QED
    BY <2>1 DEF ColumnInv, KeptFromLine, From
<1> QED
  BY <1>1, ColumnInvariant, DriverInvariant, PTL

\* What was read comes from one line, even when the tokens ran on, unless
\* they ran on in a line that a restart of the driver freed.
THEOREM OneLineAlways ==
    ASSUME NoHashLeft PROVE ImportSpec => []OneLine
<1>1. DriverInv /\ ColumnInv => OneLine
  <2> SUFFICES ASSUME DriverInv, ColumnInv, cu_pc = "idle", HasBuf, ~stale,
                      NEW a \in Attr \ missed
               PROVE  buffer[a].bytes[0].ver = buf.ver
    BY DEF OneLine
  <2>1. buf.ver \in Nat \ {0} /\ Hashed(buf.ver)
    BY DEF DriverInv, BufType, HasBuf, Hashed
  <2> QED
    BY <2>1 DEF ColumnInv, KeptFromLine, From
<1> QED
  BY <1>1, ColumnInvariant, DriverInvariant, PTL

\* Every read loop after a fetch that was due has a line to take tokens from.
THEOREM LineBehindEveryRead ==
    ASSUME NoHashLeft PROVE ImportSpec => []LineBehindReads
<1>1. ColumnInv => LineBehindReads
  BY DEF ColumnInv, NextColumn, LineBehindReads
<1> QED
  BY <1>1, ColumnInvariant, PTL
===============================================================================
