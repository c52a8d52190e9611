--------------------------- MODULE SettingsProofs ---------------------------
(***************************************************************************)
(* For every size and layout of the EEPROM, every content of the records   *)
(* and any number of commands and power failures: what is stored is kept   *)
(* (RecordsKept), what the program works with is what the next power-up    *)
(* loads (RamIsSaved), and soft limits need homing (SoftNeedsHoming).      *)
(***************************************************************************)
EXTENDS Settings, TLAPS

-----------------------------------------------------------------------------
(* Records and what is written of them.                                    *)

LEMMA ChecksumTyped ==
    ASSUME NEW n \in Nat \ {0}, NEW data \in [1..n -> Bytes]
    PROVE  Checksum(data) \in Bytes
<1>1. Len(data) = n
  OBVIOUS
<1>2. Last(data) \in Int
  BY <1>1 DEF Last, Bytes
<1>3. \A x \in Int : x % Byte \in Bytes
  BY ByteAssumption DEF Bytes
<1>4. \A sum : Added(sum, Last(data)) \in Bytes
  BY <1>2, <1>3 DEF Added
<1> QED
  BY <1>4, Zenon DEF Checksum

LEMMA WithSum ==
    ASSUME NEW n \in Nat \ {0}, NEW data \in [1..n -> Bytes], NEW c \in Bytes
    PROVE  /\ Append(data, c) \in Seq(Bytes) /\ Len(Append(data, c)) = n + 1
           /\ \A i \in 1..n : Append(data, c)[i] = data[i]
           /\ Append(data, c)[n + 1] = c
<1>1. data \in Seq(Bytes) /\ Len(data) = n
  OBVIOUS
<1> QED
  BY <1>1

\* The records there are, and those the number of $Nn= can name.
Named == {Global, Build} \cup {Coord(i) : i \in 0..NCoords - 1} \cup {Startup(n) : n \in Nat}

LEMMA Layout ==
    /\ ParametersAt \in Nat /\ StartupAt \in Nat /\ BuildAt \in Nat /\ Size \in Nat \ {0}
    /\ CoordSize \in Nat \ {0} /\ LineSize \in Nat \ {0}
    /\ NSystems \in Nat \ {0} /\ NStartup \in Nat \ {0} /\ NCoords \in Nat \ {0}
    /\ NCoords = NSystems + 2
    /\ GlobalAt + GlobalSize + 1 <= ParametersAt
    /\ ParametersAt + NCoords * (CoordSize + 1) <= StartupAt
    /\ StartupAt + NStartup * (LineSize + 1) <= BuildAt
    /\ BuildAt + LineSize + 1 <= Size
BY LayoutAssumption DEF NCoords

LEMMA Places ==
    /\ Address(Global) = GlobalAt /\ Length(Global) = GlobalSize
    /\ \A i : Address(Coord(i)) = ParametersAt + i * (CoordSize + 1)
              /\ Length(Coord(i)) = CoordSize
    /\ \A n : Address(Startup(n)) = StartupAt + n * (LineSize + 1)
              /\ Length(Startup(n)) = LineSize
    /\ Address(Build) = BuildAt /\ Length(Build) = LineSize
<1>1. Global[1] = "global" /\ Build[1] = "build"
  BY DEF Global, Build
<1>2. ASSUME NEW i
      PROVE  /\ Coord(i)[1] = "coord" /\ Coord(i)[2] = i
             /\ Startup(i)[1] = "startup" /\ Startup(i)[2] = i
  BY DEF Coord, Startup
<1>3. Address(Global) = GlobalAt /\ Address(Build) = BuildAt
  BY <1>1, Zenon DEF Address
<1>4. Length(Global) = GlobalSize /\ Length(Build) = LineSize
  BY <1>1, Zenon DEF Length
<1>5. ASSUME NEW i
      PROVE  /\ Address(Coord(i)) = ParametersAt + i * (CoordSize + 1)
             /\ Length(Coord(i)) = CoordSize
             /\ Address(Startup(i)) = StartupAt + i * (LineSize + 1)
             /\ Length(Startup(i)) = LineSize
  <2>1. Length(Coord(i)) = CoordSize
    BY <1>2, Zenon DEF Length
  <2>2. Length(Startup(i)) = LineSize
    BY <1>2, Zenon DEF Length
  <2>3. Address(Coord(i)) = ParametersAt + Coord(i)[2] * (CoordSize + 1)
    BY <1>2, Zenon DEF Address
  <2>4. Address(Startup(i)) = StartupAt + Startup(i)[2] * (LineSize + 1)
    BY <1>2, Zenon DEF Address
  <2> QED
    BY <1>2, <2>1, <2>2, <2>3, <2>4
<1> QED
  BY <1>3, <1>4, <1>5

LEMMA PlacesTyped ==
    ASSUME NEW r \in Named
    PROVE  Address(r) \in Nat \ {0} /\ Length(r) \in Nat \ {0}
<1>1. CASE r \in {Global, Build}
  BY <1>1, Places, Layout DEF GlobalAt, GlobalSize
<1>2. ASSUME NEW i \in 0..NCoords - 1, r = Coord(i)
      PROVE  Address(r) \in Nat \ {0} /\ Length(r) \in Nat \ {0}
  <2>1. i * (CoordSize + 1) \in Nat
    BY Layout
  <2> QED
    BY <1>2, <2>1, Places, Layout DEF GlobalAt, GlobalSize
<1>3. ASSUME NEW n \in Nat, r = Startup(n)
      PROVE  Address(r) \in Nat \ {0} /\ Length(r) \in Nat \ {0}
  <2>1. n * (LineSize + 1) \in Nat /\ NCoords * (CoordSize + 1) \in Nat
    BY Layout
  <2> QED
    BY <1>3, <2>1, Places, Layout DEF GlobalAt, GlobalSize
<1> QED
  BY <1>1, <1>2, <1>3 DEF Named

\* A record written whole, with its checksum, and the two writes without one:
\* the version in front of the settings, and the two zeros of a wiped line.
Whole(w) == /\ w.data \in [1..Length(w.of) -> Bytes]
            /\ w.at = Address(w.of)
            /\ w.bytes = Append(w.data, Checksum(w.data))
Partial(w) == /\ w.data = NoData
              /\ \/ w.of = Global /\ w.at = 0 /\ w.bytes = <<Version>>
                 \/ w.at = Address(w.of) /\ w.bytes = <<0, 0>>
Writes == {w \in [of : Named, at : Nat, bytes : Seq(Bytes), data : Seq(Bytes) \cup {NoData}] :
             Whole(w) \/ Partial(w)}

LEMMA RecordWrites ==
    ASSUME NEW r \in Named, NEW d \in [1..Length(r) -> Bytes]
    PROVE  Record(r, d) \in Writes /\ Whole(Record(r, d))
<1>1. Address(r) \in Nat /\ Length(r) \in Nat \ {0}
  BY PlacesTyped
<1>2. Append(d, Checksum(d)) \in Seq(Bytes)
  BY <1>1, ChecksumTyped, WithSum
<1>3. d \in Seq(Bytes)
  BY <1>1
<1>4. Record(r, d) \in [of : Named, at : Nat, bytes : Seq(Bytes), data : Seq(Bytes) \cup {NoData}]
  BY <1>1, <1>2, <1>3 DEF Record
<1>5. Whole(Record(r, d))
  BY DEF Whole, Record
<1> QED
  BY <1>4, <1>5 DEF Writes

LEMMA PartialWrites ==
    /\ Plain(Global, 0, <<Version>>) \in Writes
    /\ \A r \in Named : Emptied(r) \in Writes
<1>1. 0 \in Bytes /\ Version \in Bytes /\ Global \in Named
  BY ByteAssumption DEF Bytes, Named
<1>2. <<Version>> \in Seq(Bytes) /\ <<0, 0>> \in Seq(Bytes)
  BY <1>1
<1>3. Plain(Global, 0, <<Version>>) \in Writes
  BY <1>1, <1>2 DEF Plain, Writes, Partial
<1>4. ASSUME NEW r \in Named PROVE Emptied(r) \in Writes
  BY <1>2, PlacesTyped DEF Emptied, Plain, Writes, Partial
<1> QED
  BY <1>3, <1>4

LEMMA WriteTyped ==
    ASSUME NEW w \in Writes
    PROVE  /\ w.of \in Named /\ w.at \in Nat /\ Len(w.bytes) \in Nat \ {0}
           /\ \A i \in 1..Len(w.bytes) : w.bytes[i] \in Bytes
           /\ Whole(w) => Len(w.bytes) = Length(w.of) + 1
           /\ Partial(w) => Len(w.bytes) <= 2
<1>1. w.of \in Named /\ w.at \in Nat /\ w.bytes \in Seq(Bytes)
  BY DEF Writes
<1>2. Whole(w) => Len(w.bytes) = Length(w.of) + 1 /\ Length(w.of) \in Nat
  BY <1>1, PlacesTyped, ChecksumTyped, WithSum DEF Whole
<1>3. Partial(w) => Len(w.bytes) \in 1..2
  BY DEF Partial
<1>4. Whole(w) \/ Partial(w)
  BY DEF Writes
<1>5. Len(w.bytes) \in Nat \ {0}
  BY <1>2, <1>3, <1>4
<1>6. \A i \in 1..Len(w.bytes) : w.bytes[i] \in Bytes
  BY <1>1
<1> QED
  BY <1>1, <1>2, <1>3, <1>5, <1>6

-----------------------------------------------------------------------------
(* Jobs: what is written in one go.                                        *)

LEMMA EncodedTyped ==
    ASSUME NEW s \in SettingsType
    PROVE  Encoded(s) \in [1..GlobalSize -> Bytes] /\ Decoded(Encoded(s)) = s
<1>1. 3 \in Bytes /\ 2 \in Bytes /\ 1 \in Bytes /\ 0 \in Bytes
  BY ByteAssumption DEF Bytes
<1>2. (IF s.homing THEN 1 ELSE 0) + (IF s.soft THEN 2 ELSE 0) \in Bytes
  BY <1>1
<1>3. Encoded(s) \in [1..GlobalSize -> Bytes]
  BY <1>2 DEF Encoded, GlobalSize, SettingsType
<1>4. s = [homing |-> s.homing, soft |-> s.soft, value |-> s.value]
      /\ s.homing \in BOOLEAN /\ s.soft \in BOOLEAN
  BY DEF SettingsType
<1>5. /\ Decoded(Encoded(s)).value = s.value
      /\ Decoded(Encoded(s)).homing = s.homing
      /\ Decoded(Encoded(s)).soft = s.soft
  BY <1>4 DEF Decoded, Encoded
<1>6. Decoded(Encoded(s)) = [homing |-> s.homing, soft |-> s.soft, value |-> s.value]
  BY <1>5 DEF Decoded
<1> QED
  BY <1>3, <1>4, <1>6

LEMMA ZeroTyped == Zero \in [1..CoordSize -> Bytes]
BY ByteAssumption DEF Zero, Bytes

LEMMA Joined ==
    ASSUME NEW S, NEW s \in Seq(S), NEW t \in Seq(S)
    PROVE  /\ s \o t \in Seq(S) /\ Len(s \o t) = Len(s) + Len(t)
           /\ \A i \in 1..Len(s) : (s \o t)[i] = s[i]
           /\ \A i \in 1..Len(t) : (s \o t)[Len(s) + i] = t[i]
OBVIOUS

LEMMA JobsTyped ==
    /\ \A s \in SettingsType : GlobalRecord(s) \in Seq(Writes) /\ Len(GlobalRecord(s)) = 2
    /\ CoordRecords \in Seq(Writes) /\ Len(CoordRecords) = NCoords
    /\ Wiped \in Seq(Writes) /\ Len(Wiped) = NStartup + 1
    /\ All \in Seq(Writes) /\ Len(All) = NCoords + NStartup + 3
<1>1. ASSUME NEW s \in SettingsType
      PROVE  GlobalRecord(s) \in Seq(Writes) /\ Len(GlobalRecord(s)) = 2
  <2>1. Record(Global, Encoded(s)) \in Writes
    BY EncodedTyped, RecordWrites, Places DEF Named
  <2> QED
    BY <2>1, PartialWrites DEF GlobalRecord
<1>2. CoordRecords \in Seq(Writes) /\ Len(CoordRecords) = NCoords
  <2>1. ASSUME NEW i \in 1..NCoords PROVE Record(Coord(i - 1), Zero) \in Writes
    <3>1. i - 1 \in 0..NCoords - 1
      BY Layout
    <3> QED
      BY <3>1, ZeroTyped, RecordWrites, Places DEF Named
  <2>2. CoordRecords \in [1..NCoords -> Writes]
    BY <2>1 DEF CoordRecords
  <2> QED
    BY <2>2, Layout
<1>3. Wiped \in Seq(Writes) /\ Len(Wiped) = NStartup + 1
  <2>1. [n \in 1..NStartup |-> Emptied(Startup(n - 1))] \in [1..NStartup -> Writes]
    BY PartialWrites, Layout DEF Named
  <2>2. Emptied(Build) \in Writes
    BY PartialWrites DEF Named
  <2> QED
    BY <2>1, <2>2, Layout DEF Wiped
<1>4. All \in Seq(Writes) /\ Len(All) = NCoords + NStartup + 3
  <2>1. GlobalRecord(Defaults) \in Seq(Writes) /\ Len(GlobalRecord(Defaults)) = 2
    BY <1>1, DefaultsAssumption
  <2>2. /\ GlobalRecord(Defaults) \o CoordRecords \in Seq(Writes)
        /\ Len(GlobalRecord(Defaults) \o CoordRecords)
             = Len(GlobalRecord(Defaults)) + Len(CoordRecords)
    BY <2>1, <1>2, Joined, Zenon
  <2>3. /\ All \in Seq(Writes)
        /\ Len(All) = Len(GlobalRecord(Defaults) \o CoordRecords) + Len(Wiped)
    BY <2>2, <1>3, Joined, Zenon DEF All
  <2>4. NCoords \in Int /\ NStartup \in Int
    BY Layout
  <2> QED
    BY <2>1, <1>2, <1>3, <2>2, <2>3, <2>4
<1> QED
  BY <1>1, <1>2, <1>3, <1>4

-----------------------------------------------------------------------------
(* Type correctness, without any assumption on the index of $Nn=.          *)

Memory == eeprom \in [0..Size - 1 -> Bytes]
Writing == /\ job \in Seq(Writes)
           /\ pc \in {"off", "settings", "parser", "startup", "main", "write"}
           /\ pc = "write" => job # <<>> /\ byte \in 1..Len(Head(job).bytes)
           /\ then \in {"off", "parser", "startup", "main"}
Ram == /\ settings \in SettingsType /\ had \subseteq SettingsType
       /\ select \in 0..NSystems - 1 /\ coord \in [1..CoordSize -> Bytes]
       /\ state \in {"idle", "alarm"} /\ startup \in 0..NStartup
Bounds == commands \in 0..MaxCommands /\ losses \in 0..MaxLosses
Typed == Memory /\ Writing /\ Ram /\ Bounds

Places3 == {"parser", "startup", "main"}

LEMMA Typing == Typed => TypeOK
BY DEF Typed, Memory, Writing, Ram, Bounds, TypeOK

LEMMA CellTyped ==
    ASSUME Memory, NEW a \in Nat
    PROVE  a % Size \in 0..Size - 1 /\ At(a) \in Bytes
<1>1. a % Size \in 0..Size - 1
  BY Layout
<1> QED
  BY <1>1 DEF Memory, At

LEMMA DataTyped ==
    ASSUME Memory, NEW r \in Named
    PROVE  Data(r) \in [1..Length(r) -> Bytes]
<1>1. Address(r) \in Nat \ {0} /\ Length(r) \in Nat \ {0}
  BY PlacesTyped
<1>2. ASSUME NEW i \in 1..Length(r) PROVE At(Address(r) + i - 1) \in Bytes
  <2>1. Address(r) + i - 1 \in Nat
    BY <1>1
  <2> QED
    BY <2>1, CellTyped
<1> QED
  BY <1>2 DEF Data

LEMMA DecodedTyped ==
    ASSUME NEW d \in [1..GlobalSize -> Bytes]
    PROVE  Decoded(d) \in SettingsType
BY DEF Decoded, SettingsType, GlobalSize

LEMMA HeadTyped ==
    ASSUME Writing, pc = "write"
    PROVE  /\ Head(job) \in Writes /\ Head(job).at \in Nat
           /\ byte \in 1..Len(Head(job).bytes) /\ byte \in Nat \ {0}
           /\ Len(Head(job).bytes) \in Nat \ {0}
           /\ Head(job).bytes[byte] \in Bytes
           /\ Head(job).at + byte - 1 \in Nat
<1>1. Head(job) \in Writes /\ byte \in 1..Len(Head(job).bytes)
  BY DEF Writing
<1>2. /\ Head(job).at \in Nat /\ Len(Head(job).bytes) \in Nat \ {0}
      /\ Head(job).bytes[byte] \in Bytes
  BY <1>1, WriteTyped
<1> QED
  BY <1>1, <1>2

LEMMA WriteOK ==
    ASSUME NEW records \in Seq(Writes), records # <<>>, NEW next \in Places3,
           Write(records, next)
    PROVE  Writing'
<1>1. Head(records) \in Writes
  OBVIOUS
<1>2. Len(Head(records).bytes) \in Nat \ {0}
  BY <1>1, WriteTyped
<1> QED
  BY <1>2 DEF Write, Writing, Places3

LEMMA NothingOK ==
    ASSUME Writing, NEW next \in Places3, WriteNothing(next)
    PROVE  Writing'
BY DEF Writing, WriteNothing, Places3

LEMMA OneWrite ==
    ASSUME NEW r \in Named, NEW d \in [1..Length(r) -> Bytes]
    PROVE  <<Record(r, d)>> \in Seq(Writes) /\ <<Record(r, d)>> # <<>>
<1>1. Record(r, d) \in Writes
  BY RecordWrites
<1> QED
  BY <1>1

LEMMA HealedTyped ==
    ASSUME Memory, NEW r \in Named
    PROVE  Healed(r) \in Seq(Writes) /\ Healed(r) # <<>>
<1>1. Data(r) \in [1..Length(r) -> Bytes]
  BY DataTyped
<1>2. 0 \in Bytes
  BY ByteAssumption DEF Bytes
<1>3. [Data(r) EXCEPT ![1] = 0] \in [1..Length(r) -> Bytes]
  BY <1>1, <1>2
<1> QED
  BY <1>3, OneWrite DEF Healed

LEMMA ZeroWrite ==
    ASSUME NEW i \in 0..NCoords - 1
    PROVE  /\ Coord(i) \in Named
           /\ <<Record(Coord(i), Zero)>> \in Seq(Writes) /\ <<Record(Coord(i), Zero)>> # <<>>
<1>1. Coord(i) \in Named
  BY DEF Named
<1>2. Zero \in [1..Length(Coord(i)) -> Bytes]
  BY ZeroTyped, Places
<1> QED
  BY <1>1, <1>2, OneWrite

LEMMA CoordWrite ==
    ASSUME NEW i \in 0..NCoords - 1, NEW c \in Coords
    PROVE  /\ c \in [1..CoordSize -> Bytes]
           /\ <<Record(Coord(i), c)>> \in Seq(Writes) /\ <<Record(Coord(i), c)>> # <<>>
<1>1. Coord(i) \in Named
  BY DEF Named
<1>2. c \in [1..CoordSize -> Bytes]
  BY InputsAssumption
<1>3. c \in [1..Length(Coord(i)) -> Bytes]
  BY <1>2, Places
<1> QED
  BY <1>1, <1>2, <1>3, OneWrite

LEMMA JobsNonempty ==
    /\ \A s \in SettingsType : GlobalRecord(s) # <<>>
    /\ CoordRecords # <<>> /\ All # <<>>
<1>1. \A s \in SettingsType : GlobalRecord(s) # <<>>
  BY DEF GlobalRecord
<1>2. CoordRecords # <<>>
  <2>1. Len(CoordRecords) # 0
    BY JobsTyped, Layout
  <2> QED
    BY <2>1
<1>3. All # <<>>
  <2>1. Len(All) # 0
    BY JobsTyped, Layout
  <2> QED
    BY <2>1
<1> QED
  BY <1>1, <1>2, <1>3

LEMMA InitTyped == Init => Typed
<1> SUFFICES ASSUME Init PROVE Typed
  OBVIOUS
<1>1. Memory
  BY ImagesAssumption DEF Init, Memory
<1>2. Writing
  BY DEF Init, Writing
<1>3. Ram
  BY DefaultsAssumption, ZeroTyped, Layout DEF Init, Ram
<1>4. Bounds
  BY BoundsAssumption DEF Init, Bounds
<1> QED
  BY <1>1, <1>2, <1>3, <1>4 DEF Typed

LEMMA BootTyped == Typed /\ Boot => Typed'
<1> SUFFICES ASSUME Typed, Boot PROVE Typed'
  OBVIOUS
<1> USE DEF Typed
<1>1. CASE PowerUp
  BY <1>1 DEF PowerUp, Memory, Writing, Ram, Bounds, ram
<1>2. CASE LoadSettings
  <2>1. Memory' /\ Bounds'
    BY <1>2 DEF LoadSettings, Memory, Bounds
  <2>2. Global \in Named /\ Length(Global) = GlobalSize
    BY Places DEF Named
  <2>3. Decoded(Data(Global)) \in SettingsType
    BY <2>2, DataTyped, DecodedTyped
  <2>4. settings' \in SettingsType
    BY <1>2, <2>3, DefaultsAssumption DEF LoadSettings
  <2>5. Ram'
    BY <1>2, <2>4 DEF LoadSettings, Ram
  <2>6. WriteNothing("parser") \/ Write(All, "parser")
    BY <1>2 DEF LoadSettings
  <2>7. Writing'
    BY <2>6, WriteOK, NothingOK, JobsTyped, JobsNonempty DEF Places3
  <2> QED
    BY <2>1, <2>5, <2>7
<1>3. CASE LoadSystem
  <2>1. Memory' /\ Bounds'
    BY <1>3 DEF LoadSystem, Memory, Bounds
  <2>2. 0 \in 0..NCoords - 1
    BY Layout
  <2>3. Data(Coord(0)) \in [1..CoordSize -> Bytes]
    BY <2>2, ZeroWrite, DataTyped, Places
  <2>4. coord' \in [1..CoordSize -> Bytes]
    BY <1>3, <2>3, ZeroTyped DEF LoadSystem
  <2>5. Ram'
    BY <1>3, <2>4, Layout DEF LoadSystem, Ram
  <2>6. WriteNothing("startup") \/ Write(<<Record(Coord(0), Zero)>>, "startup")
    BY <1>3 DEF LoadSystem
  <2>7. Writing'
    BY <2>2, <2>6, WriteOK, NothingOK, ZeroWrite DEF Places3
  <2> QED
    BY <2>1, <2>5, <2>7
<1>4. CASE ExecuteStartup
  <2>1. Memory' /\ Bounds'
    BY <1>4 DEF ExecuteStartup, Memory, Bounds
  <2>2. Ram'
    BY <1>4, Layout DEF ExecuteStartup, Ram
  <2>3. WriteNothing("main") \/ WriteNothing("startup")
          \/ Write(Healed(Startup(startup)), "startup")
    BY <1>4 DEF ExecuteStartup
  <2>4. Startup(startup) \in Named
    BY DEF Ram, Named
  <2>5. Writing'
    BY <2>3, <2>4, WriteOK, NothingOK, HealedTyped DEF Places3
  <2> QED
    BY <2>1, <2>2, <2>5
<1> QED
  BY <1>1, <1>2, <1>3, <1>4 DEF Boot

LEMMA HomingTyped ==
    ASSUME Ram, NEW on \in BOOLEAN
    PROVE  Homing(on) \in SettingsType
BY DEF Ram, Homing, SettingsType

LEMMA LineTyped ==
    ASSUME Memory, Bounds, Line
    PROVE  Memory' /\ Bounds'
BY BoundsAssumption DEF Memory, Bounds, Line

LEMMA SetTyped ==
    ASSUME Typed, NEW new \in SettingsType, Set(new)
    PROVE  Typed'
<1>1. Memory' /\ Bounds'
  BY LineTyped DEF Typed, Set
<1>2. Ram'
  BY DEF Typed, Ram, Set
<1>3. Write(GlobalRecord(new), "main")
  BY DEF Set
<1>4. Writing'
  BY <1>3, WriteOK, JobsTyped, JobsNonempty DEF Places3
<1> QED
  BY <1>1, <1>2, <1>4 DEF Typed

\* A command that leaves the RAM alone and writes or does nothing.
LEMMA PlainTyped ==
    ASSUME Typed, Line, UNCHANGED ram, Writing'
    PROVE  Typed'
<1>1. Memory' /\ Bounds'
  BY LineTyped DEF Typed
<1>2. Ram'
  BY DEF Typed, ram, Ram
<1> QED
  BY <1>1, <1>2 DEF Typed

LEMMA StoreSettingSets ==
    ASSUME Ram, StoreSetting
    PROVE  \E new : Set(new) /\ new \in SettingsType
<1>1. settings \in SettingsType
  BY DEF Ram
<1>2. \A v \in Bytes : [settings EXCEPT !.value = v] \in SettingsType
  BY <1>1 DEF SettingsType
<1>3. \A b \in BOOLEAN : [settings EXCEPT !.soft = b] \in SettingsType
  BY <1>1 DEF SettingsType
<1>4. \A on \in BOOLEAN : (IF on THEN Homing(TRUE) ELSE Homing(FALSE)) \in SettingsType
  BY HomingTyped
<1> QED
  BY <1>2, <1>3, <1>4 DEF StoreSetting

LEMMA CommandTyped == Typed /\ Command => Typed'
<1> SUFFICES ASSUME Typed, Command PROVE Typed'
  OBVIOUS
<1>0. Memory /\ Writing /\ Ram /\ Bounds
  BY DEF Typed
<1>1. CASE StoreSetting
  <2>1. PICK new : Set(new) /\ new \in SettingsType
    BY <1>0, <1>1, StoreSettingSets
  <2> QED
    BY <2>1, SetTyped
<1>2. CASE Restore
  <2>1. Memory' /\ Bounds'
    BY <1>0, <1>2, LineTyped DEF Restore
  <2>2. Ram'
    BY <1>0, <1>2, DefaultsAssumption DEF Ram, Restore
  <2>3. \/ Write(GlobalRecord(Defaults), "parser")
        \/ Write(CoordRecords, "parser") \/ Write(All, "parser")
    BY <1>2 DEF Restore
  <2>4. Writing'
    BY <2>3, WriteOK, JobsTyped, JobsNonempty, DefaultsAssumption DEF Places3
  <2> QED
    BY <2>1, <2>2, <2>4 DEF Typed
<1>3. CASE StoreStartup
  <2>1. PICK n \in StartupIndexes, l \in Lines : Write(<<Record(Startup(n), l)>>, "main")
    BY <1>3 DEF StoreStartup
  <2>2. Startup(n) \in Named /\ l \in [1..Length(Startup(n)) -> Bytes]
    BY InputsAssumption, Places DEF Named
  <2>3. Writing'
    BY <2>1, <2>2, OneWrite, WriteOK DEF Places3
  <2> QED
    BY <1>3, <2>3, PlainTyped DEF StoreStartup
<1>4. CASE StoreBuild
  <2>1. PICK l \in Lines : Write(<<Record(Build, l)>>, "main")
    BY <1>4 DEF StoreBuild
  <2>2. Build \in Named /\ l \in [1..Length(Build) -> Bytes]
    BY InputsAssumption, Places DEF Named
  <2>3. Writing'
    BY <2>1, <2>2, OneWrite, WriteOK DEF Places3
  <2> QED
    BY <1>4, <2>3, PlainTyped DEF StoreBuild
<1>5. ASSUME NEW r \in {Build} \cup {Startup(n) : n \in 0..NStartup - 1}, Show(r)
      PROVE  Typed'
  <2>1. r \in Named
    BY Layout DEF Named
  <2>2. Writing'
    BY <1>0, <1>5, <2>1, HealedTyped, WriteOK DEF Show, Places3
  <2> QED
    BY <1>5, <2>2, PlainTyped DEF Show
<1>6. CASE ShowParameters
  <2>1. PICK i \in 0..NCoords - 1 : Write(<<Record(Coord(i), Zero)>>, "main")
    BY <1>6 DEF ShowParameters
  <2>2. Writing'
    BY <2>1, ZeroWrite, WriteOK DEF Places3
  <2> QED
    BY <1>6, <2>2, PlainTyped DEF ShowParameters
<1>7. ASSUME NEW i \in 0..NSystems - 1, SelectSystem(i) PROVE Typed'
  <2>1. i \in 0..NCoords - 1
    BY Layout
  <2>2. Memory' /\ Bounds'
    BY <1>0, <1>7, LineTyped DEF SelectSystem
  <2>3. Data(Coord(i)) \in [1..CoordSize -> Bytes]
    BY <1>0, <2>1, ZeroWrite, DataTyped, Places
  <2>4. Ram'
    BY <1>0, <1>7, <2>3 DEF Ram, SelectSystem
  <2>5. WriteNothing("main") \/ Write(<<Record(Coord(i), Zero)>>, "main")
    BY <1>7 DEF SelectSystem
  <2>6. Writing'
    BY <1>0, <2>1, <2>5, ZeroWrite, WriteOK, NothingOK DEF Places3
  <2> QED
    BY <2>2, <2>4, <2>6 DEF Typed
<1>8. ASSUME NEW i \in 0..NSystems - 1, SetSystem(i) PROVE Typed'
  <2>1. i \in 0..NCoords - 1
    BY Layout
  <2>2. Memory' /\ Bounds'
    BY <1>0, <1>8, LineTyped DEF SetSystem
  <2>3. \/ \E c \in Coords : /\ Write(<<Record(Coord(i), c)>>, "main")
                             /\ coord' = IF i = select THEN c ELSE coord
        \/ Write(<<Record(Coord(i), Zero)>>, "main") /\ UNCHANGED coord
    BY <1>8 DEF SetSystem
  <2>4. coord' \in [1..CoordSize -> Bytes]
    BY <1>0, <2>1, <2>3, CoordWrite DEF Ram
  <2>5. Ram'
    BY <1>0, <1>8, <2>4 DEF Ram, SetSystem
  <2>6. Writing'
    BY <2>1, <2>3, ZeroWrite, CoordWrite, WriteOK DEF Places3
  <2> QED
    BY <2>2, <2>5, <2>6 DEF Typed
<1>9. CASE SetHome
  <2>1. PICK i \in {NSystems, NSystems + 1}, c \in Coords :
               Write(<<Record(Coord(i), c)>>, "main")
    BY <1>9 DEF SetHome
  <2>2. i \in 0..NCoords - 1
    BY Layout
  <2>3. Writing'
    BY <2>1, <2>2, CoordWrite, WriteOK DEF Places3
  <2> QED
    BY <1>9, <2>3, PlainTyped DEF SetHome
<1>10. CASE Unlock
  <2>1. Memory' /\ Bounds'
    BY <1>0, <1>10, LineTyped DEF Unlock
  <2>2. Writing' /\ Ram'
    BY <1>0, <1>10 DEF Unlock, writing, Writing, Ram
  <2> QED
    BY <2>1, <2>2 DEF Typed
<1>11. CASE Reset
  <2>1. Writing'
    BY <1>0, <1>11, NothingOK DEF Reset, Places3
  <2> QED
    BY <1>11, <2>1, PlainTyped DEF Reset
<1> QED
  BY <1>1, <1>2, <1>3, <1>4, <1>5, <1>6, <1>7, <1>8, <1>9, <1>10, <1>11 DEF Command

LEMMA TailTyped ==
    ASSUME NEW S, NEW s \in Seq(S), s # <<>>, Len(s) # 1
    PROVE  Tail(s) \in Seq(S) /\ Tail(s) # <<>> /\ Head(Tail(s)) \in S
<1>1. Tail(s) \in Seq(S) /\ Len(Tail(s)) = Len(s) - 1
  OBVIOUS
<1>2. Len(s) # 0 /\ Len(s) \in Nat
  OBVIOUS
<1> DEFINE t == Tail(s)
<1>3. t \in Seq(S) /\ Len(t) \in Nat \ {0}
  BY <1>1, <1>2
<1> HIDE DEF t
<1>4. t # <<>>
  BY <1>3
<1>5. t[1] \in S /\ Head(t) = t[1]
  BY <1>3, <1>4
<1> QED
  BY <1>3, <1>4, <1>5 DEF t

LEMMA WriteByteTyped == Typed /\ WriteByte => Typed'
<1> SUFFICES ASSUME Typed, WriteByte PROVE Typed'
  OBVIOUS
<1>0. Memory /\ Writing /\ Ram /\ Bounds /\ pc = "write"
  BY DEF Typed, WriteByte
<1>1. /\ Head(job).at + byte - 1 \in Nat /\ Head(job).bytes[byte] \in Bytes
      /\ byte \in 1..Len(Head(job).bytes) /\ Len(Head(job).bytes) \in Nat \ {0}
  BY <1>0, HeadTyped
<1>2. Memory'
  BY <1>0, <1>1, CellTyped DEF Memory, WriteByte
<1>3. Ram' /\ Bounds'
  BY <1>0 DEF Ram, Bounds, WriteByte, ram
<1>4. Writing'
  <2>1. job \in Seq(Writes) /\ job # <<>> /\ Len(job) \in Nat \ {0}
    BY <1>0 DEF Writing
  <2>2. CASE byte # Len(Head(job).bytes)
    BY <1>0, <1>1, <2>1, <2>2 DEF WriteByte, Writing
  <2>3. CASE byte = Len(Head(job).bytes) /\ Len(job) = 1
    BY <1>0, <2>1, <2>3 DEF WriteByte, Writing
  <2>4. CASE byte = Len(Head(job).bytes) /\ Len(job) # 1
    <3>1. Tail(job) \in Seq(Writes) /\ Tail(job) # <<>> /\ Head(Tail(job)) \in Writes
      BY <2>1, <2>4, TailTyped
    <3>2. Len(Head(Tail(job)).bytes) \in Nat \ {0}
      BY <3>1, WriteTyped
    <3> QED
      BY <1>0, <2>1, <2>4, <3>1, <3>2 DEF WriteByte, Writing
  <2> QED
    BY <2>2, <2>3, <2>4
<1> QED
  BY <1>2, <1>3, <1>4 DEF Typed

LEMMA PowerLossTyped == Typed /\ PowerLoss => Typed'
<1> SUFFICES ASSUME Typed, PowerLoss PROVE Typed'
  OBVIOUS
<1>1. Erased \in Bytes
  BY ByteAssumption DEF Erased, Bytes
<1>2. Memory'
  BY <1>1, HeadTyped, CellTyped DEF Typed, Memory, PowerLoss
<1>3. Writing'
  BY DEF Typed, Writing, PowerLoss
<1>4. Ram' /\ Bounds'
  BY BoundsAssumption DEF Typed, Ram, Bounds, PowerLoss, ram
<1> QED
  BY <1>2, <1>3, <1>4 DEF Typed

LEMMA TypedInductive == Typed /\ [Next]_vars => Typed'
<1>1. Typed /\ UNCHANGED vars => Typed'
  BY DEF Typed, Memory, Writing, Ram, Bounds, vars, writing, ram
<1> QED
  BY <1>1, BootTyped, CommandTyped, WriteByteTyped, PowerLossTyped DEF Next

\* The bytes, the place of the program and the RAM stay what they should be,
\* whatever index $Nn= is given (settings.c, eeprom.c).
THEOREM SettingsTyped == Spec => []TypeOK
<1>1. Spec => []Typed
  BY InitTyped, TypedInductive, PTL DEF Spec
<1> QED
  BY <1>1, Typing, PTL

-----------------------------------------------------------------------------
(* Where the records lie.                                                  *)

Cells(r) == Address(r)..Address(r) + Length(r)

LEMMA TimesMonotone ==
    ASSUME NEW i \in Nat, NEW j \in Nat, NEW k \in Nat, i < j
    PROVE  i * k + k <= j * k
<1>1. (j - i - 1) * k >= 0
  <2>1. j - i - 1 \in Nat
    OBVIOUS
  <2> QED
    BY <2>1
<1>2. (j - i - 1) * k = j * k - i * k - k
  OBVIOUS
<1>3. i * k \in Int /\ j * k \in Int
  OBVIOUS
<1> QED
  BY <1>1, <1>2, <1>3

LEMMA InTable ==
    ASSUME NEW base \in Nat, NEW size \in Nat \ {0}, NEW count \in Nat, NEW end \in Nat,
           base + count * size <= end
    PROVE  /\ \A i \in 0..count - 1 :
                 i * size \in Nat /\ base <= base + i * size /\ base + i * size + size <= end
           /\ \A i, j \in 0..count - 1 : i < j => base + i * size + size <= base + j * size
<1>0. count * size \in Nat /\ \A i \in 0..count - 1 : i * size \in Nat
  OBVIOUS
<1>1. ASSUME NEW i \in 0..count - 1 PROVE i * size + size <= count * size
  BY TimesMonotone
<1>2. ASSUME NEW i \in 0..count - 1, NEW j \in 0..count - 1, i < j
      PROVE  i * size + size <= j * size
  BY <1>2, TimesMonotone
<1>3. ASSUME NEW i \in 0..count - 1
      PROVE  i * size \in Nat /\ base <= base + i * size /\ base + i * size + size <= end
  BY <1>0, <1>1
<1>4. ASSUME NEW i \in 0..count - 1, NEW j \in 0..count - 1, i < j
      PROVE  base + i * size + size <= base + j * size
  BY <1>0, <1>2, <1>4
<1> QED
  BY <1>3, <1>4

LEMMA Zones ==
    /\ Cells(Global) \subseteq 1..ParametersAt - 1
    /\ \A i \in 0..NCoords - 1 : Cells(Coord(i)) \subseteq ParametersAt..StartupAt - 1
    /\ \A n \in 0..NStartup - 1 : Cells(Startup(n)) \subseteq StartupAt..BuildAt - 1
    /\ Cells(Build) \subseteq BuildAt..Size - 1
<1>1. Cells(Global) \subseteq 1..ParametersAt - 1
  BY Places, Layout DEF Cells, GlobalAt, GlobalSize
<1>2. ASSUME NEW i \in 0..NCoords - 1 PROVE Cells(Coord(i)) \subseteq ParametersAt..StartupAt - 1
  <2>1. /\ i * (CoordSize + 1) \in Nat
        /\ ParametersAt + i * (CoordSize + 1) + (CoordSize + 1) <= StartupAt
    BY InTable, Layout
  <2>2. Cells(Coord(i)) = ParametersAt + i * (CoordSize + 1)
                            ..ParametersAt + i * (CoordSize + 1) + CoordSize
    BY Places DEF Cells
  <2> QED
    BY <2>1, <2>2, Layout
<1>3. ASSUME NEW n \in 0..NStartup - 1 PROVE Cells(Startup(n)) \subseteq StartupAt..BuildAt - 1
  <2>1. /\ n * (LineSize + 1) \in Nat
        /\ StartupAt + n * (LineSize + 1) + (LineSize + 1) <= BuildAt
    BY InTable, Layout
  <2>2. Cells(Startup(n)) = StartupAt + n * (LineSize + 1)
                              ..StartupAt + n * (LineSize + 1) + LineSize
    BY Places DEF Cells
  <2> QED
    BY <2>1, <2>2, Layout
<1>4. Cells(Build) \subseteq BuildAt..Size - 1
  BY Places, Layout DEF Cells
<1> QED
  BY <1>1, <1>2, <1>3, <1>4

LEMMA Ranges ==
    /\ 1 <= ParametersAt /\ ParametersAt <= StartupAt
    /\ StartupAt <= BuildAt /\ BuildAt <= Size
<1>1. NCoords * (CoordSize + 1) \in Nat /\ NStartup * (LineSize + 1) \in Nat
  BY Layout
<1> QED
  BY <1>1, Layout DEF GlobalAt, GlobalSize

LEMMA RecordsNamed == Records \subseteq Named
BY Layout DEF Records, Named

\* No two records share a byte (settings.h: the addresses; eeprom.c:127: one
\* byte more than the data).
LEMMA Apart ==
    ASSUME NEW r \in Records, NEW s \in Records, r # s, NEW a \in Cells(r)
    PROVE  a \notin Cells(s)
<1>1. ASSUME NEW i \in 0..NCoords - 1, NEW j \in 0..NCoords - 1, i < j
      PROVE  Cells(Coord(i)) \cap Cells(Coord(j)) = {}
  <2>1. /\ i * (CoordSize + 1) \in Nat /\ j * (CoordSize + 1) \in Nat
        /\ ParametersAt + i * (CoordSize + 1) + (CoordSize + 1)
              <= ParametersAt + j * (CoordSize + 1)
    BY <1>1, InTable, Layout
  <2> QED
    BY <2>1, Places, Layout DEF Cells
<1>2. ASSUME NEW i \in 0..NStartup - 1, NEW j \in 0..NStartup - 1, i < j
      PROVE  Cells(Startup(i)) \cap Cells(Startup(j)) = {}
  <2>1. /\ i * (LineSize + 1) \in Nat /\ j * (LineSize + 1) \in Nat
        /\ StartupAt + i * (LineSize + 1) + (LineSize + 1)
              <= StartupAt + j * (LineSize + 1)
    BY <1>2, InTable, Layout
  <2> QED
    BY <2>1, Places, Layout DEF Cells
<1>3. ASSUME NEW i \in 0..NCoords - 1, NEW j \in 0..NCoords - 1, i # j
      PROVE  Cells(Coord(i)) \cap Cells(Coord(j)) = {}
  <2>1. i < j \/ j < i
    BY <1>3, Layout
  <2> QED
    BY <1>1, <2>1
<1>4. ASSUME NEW i \in 0..NStartup - 1, NEW j \in 0..NStartup - 1, i # j
      PROVE  Cells(Startup(i)) \cap Cells(Startup(j)) = {}
  <2>1. i < j \/ j < i
    BY <1>4, Layout
  <2> QED
    BY <1>2, <2>1
<1>5. a \in Int /\ ParametersAt \in Int /\ StartupAt \in Int /\ BuildAt \in Int /\ Size \in Int
  BY RecordsNamed, PlacesTyped, Layout DEF Cells
<1>6. CASE r = Global
  BY <1>5, <1>6, Zones, Ranges DEF Records
<1>7. CASE r = Build
  BY <1>5, <1>7, Zones, Ranges DEF Records
<1>8. ASSUME NEW i \in 0..NCoords - 1, r = Coord(i) PROVE a \notin Cells(s)
  BY <1>3, <1>5, <1>8, Zones, Ranges DEF Records
<1>9. ASSUME NEW n \in 0..NStartup - 1, r = Startup(n) PROVE a \notin Cells(s)
  BY <1>4, <1>5, <1>9, Zones, Ranges DEF Records
<1> QED
  BY <1>6, <1>7, <1>8, <1>9 DEF Records

LEMMA InMemory ==
    ASSUME NEW r \in Records
    PROVE  /\ Cells(r) \subseteq 1..Size - 1
           /\ \A k \in 1..Length(r) + 1 : Address(r) + k - 1 \in Cells(r)
           /\ Address(r) \in Nat \ {0} /\ Length(r) \in Nat \ {0}
<1>1. Address(r) \in Nat \ {0} /\ Length(r) \in Nat \ {0}
  BY RecordsNamed, PlacesTyped
<1>2. Cells(r) \subseteq 1..Size - 1
  BY Zones, Ranges, Layout DEF Records
<1>3. \A k \in 1..Length(r) + 1 : Address(r) + k - 1 \in Cells(r)
  BY <1>1 DEF Cells
<1> QED
  BY <1>1, <1>2, <1>3

\* A byte is written into the record it is of, or it is the version.
LEMMA Spot ==
    ASSUME NEW w \in Writes, w.of \in Records, NEW k \in 1..Len(w.bytes)
    PROVE  /\ w.at + k - 1 \in 0..Size - 1 /\ (w.at + k - 1) % Size = w.at + k - 1
           /\ \/ w.at = 0 /\ k = 1 /\ w.of = Global /\ w.bytes = <<Version>>
              \/ w.at = Address(w.of) /\ w.at # 0 /\ w.at + k - 1 \in Cells(w.of)
<1>1. /\ Address(w.of) \in Nat \ {0} /\ Length(w.of) \in Nat \ {0}
      /\ Cells(w.of) \subseteq 1..Size - 1
      /\ \A i \in 1..Length(w.of) + 1 : Address(w.of) + i - 1 \in Cells(w.of)
  BY InMemory
<1>0. \A a \in 0..Size - 1 : a % Size = a
  BY Layout
<1>2. CASE Whole(w)
  <2>1. Len(w.bytes) = Length(w.of) + 1 /\ w.at = Address(w.of)
    BY <1>2, WriteTyped DEF Whole
  <2>2. w.at + k - 1 \in Cells(w.of)
    BY <1>1, <2>1
  <2>3. w.at + k - 1 \in 0..Size - 1
    BY <1>1, <2>2, Layout
  <2> QED
    BY <1>0, <1>1, <2>1, <2>2, <2>3
<1>3. CASE Partial(w)
  <2>1. CASE w.of = Global /\ w.at = 0 /\ w.bytes = <<Version>>
    BY <2>1, Layout
  <2>2. CASE w.at = Address(w.of) /\ w.bytes = <<0, 0>>
    <3>1. Len(w.bytes) = 2
      BY <2>2
    <3>2. k \in 1..Length(w.of) + 1
      BY <1>1, <3>1
    <3>3. w.at + k - 1 \in Cells(w.of)
      BY <1>1, <2>2, <3>2
    <3>4. w.at + k - 1 \in 0..Size - 1
      BY <1>1, <3>3, Layout
    <3> QED
      BY <1>0, <1>1, <2>2, <3>3, <3>4
  <2> QED
    BY <1>3, <2>1, <2>2 DEF Partial
<1> QED
  BY <1>2, <1>3 DEF Writes

-----------------------------------------------------------------------------
(* What is stored is kept.  The inductive invariant: no promise is made of  *)
(* the records still to be written, of two writes of one record the earlier *)
(* promises nothing, and the first record is in place up to the next byte.  *)

\* e holds the data d, with its checksum, in the place of r.
Holds(e, r, d) ==
    /\ d \in [1..Length(r) -> Bytes]
    /\ \A k \in 1..Length(r) : e[Address(r) + k - 1] = d[k]
    /\ e[Address(r) + Length(r)] = Checksum(d)

Kept == \A r \in Records : stored[r] # NoData => Holds(eeprom, r, stored[r])

\* The records of a job are in the EEPROM's tables, and of two writes of one
\* record the first is without a checksum.
Fits(records) ==
    /\ \A i \in 1..Len(records) : records[i].of \in Records
    /\ \A i, j \in 1..Len(records) :
          i < j /\ records[i].of = records[j].of => records[i].data = NoData
Open == \A i \in 1..Len(job) : stored[job[i].of] = NoData
InPlace == pc = "write" =>
    \A k \in 1..byte - 1 : eeprom[Head(job).at + k - 1] = Head(job).bytes[k]
Jobs == /\ job # <<>> => pc = "write"
        /\ Fits(job) /\ Open /\ InPlace
        /\ stored = [r \in Records |-> stored[r]]

LEMMA HoldsIs ==
    ASSUME Memory, NEW r \in Records, NEW d
    PROVE  Holds(eeprom, r, d) <=> Data(r) = d /\ Valid(r)
<1>1. /\ Cells(r) \subseteq 1..Size - 1
      /\ \A k \in 1..Length(r) + 1 : Address(r) + k - 1 \in Cells(r)
      /\ Address(r) \in Nat \ {0} /\ Length(r) \in Nat \ {0}
  BY InMemory
<1>2. \A a \in 0..Size - 1 : a % Size = a
  BY Layout
<1>3. ASSUME NEW k \in 1..Length(r) + 1
      PROVE  At(Address(r) + k - 1) = eeprom[Address(r) + k - 1]
  <2>1. Address(r) + k - 1 \in 0..Size - 1
    BY <1>1, Layout
  <2> QED
    BY <1>2, <2>1 DEF At
<1>4. At(Address(r) + Length(r)) = eeprom[Address(r) + Length(r)]
  <2>1. Length(r) + 1 \in 1..Length(r) + 1 /\ Address(r) + (Length(r) + 1) - 1 = Address(r) + Length(r)
    BY <1>1
  <2> QED
    BY <1>3, <2>1
<1>5. \A k \in 1..Length(r) : Data(r)[k] = eeprom[Address(r) + k - 1]
  BY <1>1, <1>3 DEF Data
<1>6. Data(r) \in [1..Length(r) -> Bytes]
  BY RecordsNamed, DataTyped
<1>7. ASSUME Holds(eeprom, r, d) PROVE Data(r) = d /\ Valid(r)
  <2>1. Data(r) = d
    <3>1. d \in [1..Length(r) -> Bytes] /\ \A k \in 1..Length(r) : Data(r)[k] = d[k]
      BY <1>5, <1>7 DEF Holds
    <3>2. d = [k \in 1..Length(r) |-> d[k]] /\ Data(r) = [k \in 1..Length(r) |-> Data(r)[k]]
      BY <1>6, <3>1
    <3> QED
      BY <3>1, <3>2
  <2> QED
    BY <1>4, <1>7, <2>1 DEF Holds, Valid
<1>8. ASSUME Data(r) = d, Valid(r) PROVE Holds(eeprom, r, d)
  BY <1>4, <1>5, <1>6, <1>8 DEF Holds, Valid
<1> QED
  BY <1>7, <1>8

LEMMA HoldsFrame ==
    ASSUME NEW e, NEW f, NEW r \in Records, NEW d, Holds(e, r, d),
           \A a \in Cells(r) : f[a] = e[a]
    PROVE  Holds(f, r, d)
<1>1. /\ \A k \in 1..Length(r) + 1 : Address(r) + k - 1 \in Cells(r)
      /\ Address(r) \in Nat \ {0} /\ Length(r) \in Nat \ {0}
  BY InMemory
<1>2. \A k \in 1..Length(r) : f[Address(r) + k - 1] = e[Address(r) + k - 1]
  BY <1>1
<1>3. Address(r) + Length(r) \in Cells(r)
  BY <1>1 DEF Cells
<1> QED
  BY <1>2, <1>3 DEF Holds

\* What one byte changes: the next byte of the first record is in place, and
\* nothing of the other records.
LEMMA ByteWritten ==
    ASSUME Typed, Fits(job), InPlace, WriteByte
    PROVE  LET w == Head(job) IN
           /\ w \in Writes /\ w.of \in Records /\ w = job[1] /\ byte \in 1..Len(w.bytes)
           /\ w.at + byte - 1 \in 0..Size - 1
           /\ eeprom' = [eeprom EXCEPT ![w.at + byte - 1] = w.bytes[byte]]
           /\ \A k \in 1..byte : eeprom'[w.at + k - 1] = w.bytes[k]
           /\ \A r \in Records \ {w.of} : \A a \in Cells(r) : eeprom'[a] = eeprom[a]
<1> DEFINE w == Head(job)
<1>0. /\ pc = "write" /\ Memory /\ Writing
      /\ job \in Seq(Writes) /\ job # <<>>
  BY DEF WriteByte, Typed, Writing
<1>1. w \in Writes /\ w.at \in Nat /\ byte \in 1..Len(w.bytes) /\ Len(w.bytes) \in Nat
  BY <1>0, HeadTyped
<1>2. w = job[1] /\ 1 \in 1..Len(job)
  BY <1>0
<1>3. w.of \in Records
  BY <1>2 DEF Fits
<1>4. eeprom' = [eeprom EXCEPT ![(w.at + byte - 1) % Size] = w.bytes[byte]]
  BY DEF WriteByte
<1> HIDE DEF w
<1>5. /\ w.at + byte - 1 \in 0..Size - 1 /\ (w.at + byte - 1) % Size = w.at + byte - 1
      /\ \/ w.at = 0 /\ byte = 1 /\ w.of = Global /\ w.bytes = <<Version>>
         \/ w.at = Address(w.of) /\ w.at # 0 /\ w.at + byte - 1 \in Cells(w.of)
  BY <1>1, <1>3, Spot
<1>6. eeprom' = [eeprom EXCEPT ![w.at + byte - 1] = w.bytes[byte]]
  BY <1>4, <1>5
<1>7. \A k \in 1..byte - 1 : eeprom[w.at + k - 1] = w.bytes[k]
  BY <1>0 DEF InPlace, w
<1>8. ASSUME NEW k \in 1..byte PROVE eeprom'[w.at + k - 1] = w.bytes[k]
  <2>1. eeprom'[w.at + byte - 1] = w.bytes[byte]
    BY <1>0, <1>5, <1>6 DEF Memory
  <2>2. CASE k = byte
    BY <2>1, <2>2
  <2>3. CASE k # byte
    <3>1. k \in 1..byte - 1 /\ w.at + k - 1 # w.at + byte - 1
      BY <1>1, <2>3
    <3>2. eeprom[w.at + k - 1] = w.bytes[k]
      BY <1>7, <3>1
    <3>3. w.at + k - 1 \in 0..Size - 1
      <4>1. Size \in Int
        BY Layout
      <4> QED
        BY <1>1, <1>5, <3>1, <4>1
    <3>4. eeprom'[w.at + k - 1] = eeprom[w.at + k - 1]
      BY <1>0, <1>6, <3>1, <3>3 DEF Memory
    <3> QED
      BY <3>2, <3>4
  <2> QED
    BY <2>2, <2>3
<1>9. ASSUME NEW r \in Records \ {w.of}, NEW a \in Cells(r) PROVE eeprom'[a] = eeprom[a]
  <2>1. a \in 1..Size - 1
    BY InMemory
  <2>2. a # w.at + byte - 1
    <3>1. CASE w.at = 0 /\ byte = 1
      BY <2>1, <3>1, Layout
    <3>2. CASE w.at + byte - 1 \in Cells(w.of)
      BY <1>3, <3>2, Apart
    <3> QED
      BY <1>5, <3>1, <3>2
  <2>3. a \in 0..Size - 1
    BY <2>1, Layout
  <2> QED
    BY <1>0, <1>6, <2>2, <2>3 DEF Memory
<1> QED
  BY <1>1, <1>2, <1>3, <1>5, <1>6, <1>8, <1>9 DEF w

\* After the last byte of a record with a checksum the record is there.
LEMMA RecordWritten ==
    ASSUME Typed, Fits(job), InPlace, WriteByte,
           byte = Len(Head(job).bytes), Whole(Head(job))
    PROVE  Holds(eeprom', Head(job).of, Head(job).data)
<1> DEFINE w == Head(job)
<1>1. /\ w \in Writes /\ w.of \in Records
      /\ \A k \in 1..byte : eeprom'[w.at + k - 1] = w.bytes[k]
  BY ByteWritten
<1>2. byte = Len(w.bytes) /\ Whole(w)
  OBVIOUS
<1> HIDE DEF w
<1>3. /\ w.data \in [1..Length(w.of) -> Bytes] /\ w.at = Address(w.of)
      /\ w.bytes = Append(w.data, Checksum(w.data))
  BY <1>2 DEF Whole
<1>4. Address(w.of) \in Nat /\ Length(w.of) \in Nat \ {0}
  BY <1>1, InMemory
<1>5. Checksum(w.data) \in Bytes
  BY <1>3, <1>4, ChecksumTyped
<1>6. /\ Len(w.bytes) = Length(w.of) + 1 /\ w.bytes[Length(w.of) + 1] = Checksum(w.data)
      /\ \A k \in 1..Length(w.of) : w.bytes[k] = w.data[k]
  BY <1>3, <1>4, <1>5, WithSum
<1>7. \A k \in 1..Length(w.of) + 1 : eeprom'[w.at + k - 1] = w.bytes[k]
  BY <1>1, <1>2, <1>6
<1>8. \A k \in 1..Length(w.of) : eeprom'[Address(w.of) + k - 1] = w.data[k]
  BY <1>3, <1>4, <1>6, <1>7
<1>9. eeprom'[Address(w.of) + Length(w.of)] = Checksum(w.data)
  <2>1. /\ Length(w.of) + 1 \in 1..Length(w.of) + 1
        /\ Address(w.of) + (Length(w.of) + 1) - 1 = Address(w.of) + Length(w.of)
    BY <1>4
  <2> QED
    BY <1>3, <1>6, <1>7, <2>1
<1> QED
  BY <1>3, <1>8, <1>9 DEF Holds, w

LEMMA ByteKeeps ==
    ASSUME Typed, Kept, Jobs, WriteByte
    PROVE  Kept' /\ Jobs'
<1> DEFINE w == Head(job)
           last == byte = Len(w.bytes)
<1>0. /\ pc = "write" /\ job \in Seq(Writes) /\ job # <<>> /\ then # "write"
      /\ byte \in 1..Len(w.bytes)
      /\ stored = [r \in Records |-> stored[r]] /\ Fits(job) /\ Open /\ InPlace
  BY DEF WriteByte, Typed, Writing, Jobs
<1>1. /\ w \in Writes /\ w.of \in Records /\ w = job[1]
      /\ \A k \in 1..byte : eeprom'[w.at + k - 1] = w.bytes[k]
      /\ \A r \in Records \ {w.of} : \A a \in Cells(r) : eeprom'[a] = eeprom[a]
  BY <1>0, ByteWritten
<1>2. 1 \in 1..Len(job) /\ Len(job) \in Nat
  BY <1>0
<1>3. stored[w.of] = NoData
  BY <1>1, <1>2, <1>0 DEF Open
<1>4. /\ byte' = IF last THEN 1 ELSE byte + 1
      /\ job' = IF last THEN Tail(job) ELSE job
      /\ stored' = IF last THEN [stored EXCEPT ![w.of] = w.data] ELSE stored
      /\ IF last /\ Len(job) = 1 THEN pc' = then ELSE pc' = pc
  BY <1>1 DEF WriteByte
<1>5. \A r \in Records \ {w.of} :
         stored'[r] = stored[r] /\ \A d : Holds(eeprom, r, d) => Holds(eeprom', r, d)
  BY <1>0, <1>1, <1>4, HoldsFrame
<1>6. last => (w.data # NoData => Holds(eeprom', w.of, w.data))
  BY <1>0, <1>1, RecordWritten DEF Writes, Partial
<1>7. stored' = [r \in Records |-> stored'[r]] /\ stored'[w.of] = IF last THEN w.data ELSE NoData
  BY <1>0, <1>1, <1>3, <1>4
<1> HIDE DEF w, last
<1>8. Kept'
  <2>1. ASSUME NEW r \in Records, stored'[r] # NoData PROVE Holds(eeprom', r, stored'[r])
    <3>1. CASE r = w.of
      BY <1>6, <1>7, <2>1, <3>1
    <3>2. CASE r # w.of
      BY <1>5, <2>1, <3>2 DEF Kept
    <3> QED
      BY <3>1, <3>2
  <2> QED
    BY <2>1 DEF Kept
<1>9. CASE ~last
  <2>1. /\ job' = job /\ stored' = stored /\ byte' = byte + 1 /\ pc' = pc
    BY <1>4, <1>9
  <2>2. InPlace'
    <3>1. byte' - 1 = byte
      BY <1>0, <2>1
    <3> QED
      BY <1>1, <2>1, <3>1 DEF InPlace, w
  <2>3. Fits(job)' /\ Open'
    BY <1>0, <2>1 DEF Open
  <2> QED
    BY <1>0, <1>7, <1>8, <2>1, <2>2, <2>3 DEF Jobs
<1>10. CASE last
  <2>1. job' = Tail(job) /\ byte' = 1
    BY <1>4, <1>10
  <2>2. Len(job') = Len(job) - 1 /\ \A i \in 1..Len(job') : job'[i] = job[i + 1]
    BY <1>0, <1>2, <2>1
  <2>3. \A i \in 1..Len(job') : i + 1 \in 1..Len(job)
    BY <1>2, <2>2
  <2>4. Fits(job')
    <3>1. ASSUME NEW i \in 1..Len(job') PROVE job'[i].of \in Records
      BY <1>0, <2>2, <2>3 DEF Fits
    <3>2. ASSUME NEW i \in 1..Len(job'), NEW j \in 1..Len(job'),
                 i < j, job'[i].of = job'[j].of
          PROVE  job'[i].data = NoData
      <4>1. /\ i + 1 \in 1..Len(job) /\ j + 1 \in 1..Len(job) /\ i + 1 < j + 1
            /\ job'[i] = job[i + 1] /\ job'[j] = job[j + 1]
        BY <2>2, <2>3, <3>2
      <4> QED
        BY <1>0, <3>2, <4>1 DEF Fits
    <3> QED
      BY <3>1, <3>2 DEF Fits
  <2>5. ASSUME NEW i \in 1..Len(job') PROVE stored'[job'[i].of] = NoData
    <3>1. /\ i + 1 \in 1..Len(job) /\ 1 < i + 1 /\ job'[i] = job[i + 1]
          /\ job'[i].of \in Records /\ stored[job'[i].of] = NoData
      BY <1>0, <2>2, <2>3 DEF Fits, Open
    <3>2. CASE job'[i].of = w.of
      BY <1>0, <1>1, <1>2, <1>7, <1>10, <3>1, <3>2 DEF Fits
    <3>3. CASE job'[i].of # w.of
      BY <1>5, <3>1, <3>3
    <3> QED
      BY <3>2, <3>3
  <2>6. job' # <<>> => pc' = "write"
    <3>1. CASE Len(job) = 1
      <4>1. Len(job') = 0
        BY <2>2, <3>1
      <4> QED
        BY <1>0, <2>1, <4>1
    <3>2. CASE Len(job) # 1
      BY <1>0, <1>4, <3>2
    <3> QED
      BY <3>1, <3>2
  <2>7. InPlace'
    BY <2>1 DEF InPlace
  <2> QED
    BY <1>7, <1>8, <2>4, <2>5, <2>6, <2>7 DEF Jobs, Open
<1> QED
  BY <1>9, <1>10, <1>8

LEMMA WriteKeeps ==
    ASSUME Kept, Jobs, UNCHANGED eeprom, NEW records \in Seq(Writes), Fits(records),
           NEW next, Write(records, next)
    PROVE  Kept' /\ Jobs'
<1>1. /\ job' = records /\ byte' = 1 /\ pc' = "write"
      /\ stored' = [r \in Records |->
                      IF \E i \in DOMAIN records : records[i].of = r THEN NoData ELSE stored[r]]
  BY DEF Write
<1>2. Kept'
  BY <1>1 DEF Kept
<1>3. Open'
  <2>1. ASSUME NEW i \in 1..Len(records) PROVE stored'[records[i].of] = NoData
    <3>1. records[i].of \in Records /\ i \in DOMAIN records
      BY DEF Fits
    <3> QED
      BY <1>1, <3>1
  <2> QED
    BY <1>1, <2>1 DEF Open
<1>4. stored' = [r \in Records |-> stored'[r]]
  BY <1>1
<1>5. InPlace'
  BY <1>1 DEF InPlace
<1> QED
  BY <1>1, <1>2, <1>3, <1>4, <1>5 DEF Jobs

LEMMA NothingKeeps ==
    ASSUME Kept, Jobs, UNCHANGED eeprom, pc # "write", NEW next, next # "write",
           WriteNothing(next)
    PROVE  Kept' /\ Jobs'
<1>1. job = <<>> /\ pc' = next /\ UNCHANGED <<job, byte, stored>>
  BY DEF Jobs, WriteNothing
<1>2. Kept'
  BY <1>1 DEF Kept
<1>3. Fits(job)' /\ Open' /\ InPlace'
  BY <1>1 DEF Jobs, Open, InPlace
<1> QED
  BY <1>1, <1>2, <1>3 DEF Jobs

LEMMA Distinct ==
    /\ Global # Build
    /\ \A i, n : /\ Coord(i) \notin {Global, Build, Startup(n)}
                 /\ Startup(n) \notin {Global, Build}
    /\ \A i, j : Coord(i) = Coord(j) => i = j
BY DEF Global, Build, Coord, Startup

LEMMA InRecords ==
    /\ Global \in Records /\ Build \in Records
    /\ \A i \in 0..NCoords - 1 : Coord(i) \in Records
    /\ \A n \in 0..NStartup - 1 : Startup(n) \in Records
BY DEF Records

LEMMA FitsOne ==
    ASSUME NEW r \in Records, NEW d
    PROVE  Fits(<<Record(r, d)>>)
BY DEF Fits, Record

LEMMA RecordOf == \A r, d : Record(r, d).of = r /\ Record(r, d).at = Address(r) /\ Record(r, d).data = d
BY DEF Record

LEMMA GlobalParts ==
    ASSUME NEW s
    PROVE  /\ GlobalRecord(s)[1] = Plain(Global, 0, <<Version>>)
           /\ GlobalRecord(s)[2] = Record(Global, Encoded(s))
           /\ Len(GlobalRecord(s)) = 2
BY DEF GlobalRecord

LEMMA FitsGlobal ==
    ASSUME NEW s
    PROVE  Fits(GlobalRecord(s))
<1>1. \A i \in 1..2 : GlobalRecord(s)[i].of = Global
  <2>1. GlobalRecord(s)[1].of = Global
    BY GlobalParts DEF Plain
  <2>2. GlobalRecord(s)[2].of = Global
    BY GlobalParts, RecordOf
  <2>3. \A i \in 1..2 : i = 1 \/ i = 2
    OBVIOUS
  <2> QED
    BY <2>1, <2>2, <2>3
<1>2. GlobalRecord(s)[1].data = NoData
  BY GlobalParts DEF Plain
<1>3. \A i, j \in 1..2 : i < j => i = 1
  OBVIOUS
<1> QED
  BY <1>1, <1>2, <1>3, InRecords, GlobalParts DEF Fits

LEMMA CoordParts ==
    /\ Len(CoordRecords) = NCoords
    /\ \A i \in 1..NCoords : CoordRecords[i] = Record(Coord(i - 1), Zero)
BY JobsTyped DEF CoordRecords

LEMMA CoordOthers ==
    ASSUME NEW i \in 1..Len(CoordRecords)
    PROVE  CoordRecords[i].of # Global
<1>1. CoordRecords[i] = Record(Coord(i - 1), Zero)
  BY CoordParts
<1> QED
  BY <1>1, RecordOf, Distinct

LEMMA FitsCoords == Fits(CoordRecords)
<1>1. ASSUME NEW i \in 1..NCoords
      PROVE  CoordRecords[i].of = Coord(i - 1) /\ i - 1 \in 0..NCoords - 1
  BY CoordParts, Layout DEF Record
<1>2. ASSUME NEW i \in 1..NCoords, NEW j \in 1..NCoords, i < j
      PROVE  CoordRecords[i].of # CoordRecords[j].of
  BY <1>1, <1>2, Distinct
<1> QED
  BY <1>1, <1>2, InRecords, CoordParts DEF Fits

LEMMA WipedParts ==
    ASSUME NEW i \in 1..NStartup + 1
    PROVE  /\ Wiped[i].data = NoData /\ Wiped[i].of \in Records
           /\ Wiped[i].of # Global /\ \A k : Wiped[i].of # Coord(k)
<1> DEFINE front == [n \in 1..NStartup |-> Emptied(Startup(n - 1))]
<1>0. NStartup \in Nat \ {0}
  BY Layout
<1>1. front \in Seq(Writes) /\ Len(front) = NStartup
  <2>1. front \in [1..NStartup -> Writes]
    BY PartialWrites, Layout DEF Named
  <2> QED
    BY <1>0, <2>1
<1>2. /\ Wiped = front \o <<Emptied(Build)>>
      /\ <<Emptied(Build)>> \in Seq(Writes) /\ Len(<<Emptied(Build)>>) = 1
  BY PartialWrites DEF Wiped, Named
<1>a. /\ \A k \in 1..NStartup : front[k] = Emptied(Startup(k - 1))
      /\ <<Emptied(Build)>>[1] = Emptied(Build)
  OBVIOUS
<1> DEFINE back == <<Emptied(Build)>>
<1> HIDE DEF front, back
<1>c. /\ \A k \in 1..Len(front) : Wiped[k] = front[k]
      /\ \A k \in 1..Len(back) : Wiped[Len(front) + k] = back[k]
  BY <1>1, <1>2, Joined DEF back
<1>3. CASE i \in 1..NStartup
  <2>1. Wiped[i] = front[i]
    BY <1>1, <1>3, <1>c
  <2>2. Wiped[i] = Emptied(Startup(i - 1)) /\ i - 1 \in 0..NStartup - 1
    BY <1>0, <1>3, <1>a, <2>1
  <2> QED
    BY <2>2, InRecords, Distinct DEF Emptied, Plain
<1>4. CASE i = NStartup + 1
  <2>1. Wiped[i] = Emptied(Build)
    <3>1. Len(back) = 1 /\ back[1] = Emptied(Build)
      BY <1>a DEF back
    <3>2. 1 \in 1..Len(back)
      BY <3>1
    <3> QED
      BY <1>1, <1>4, <1>c, <3>1, <3>2
  <2> QED
    BY <2>1, InRecords, Distinct DEF Emptied, Plain
<1> QED
  BY <1>0, <1>3, <1>4

LEMMA AllParts ==
    /\ Len(All) = 2 + NCoords + (NStartup + 1)
    /\ All[1] = Plain(Global, 0, <<Version>>) /\ All[2] = Record(Global, Encoded(Defaults))
    /\ \A i \in 1..NCoords : All[2 + i] = CoordRecords[i]
    /\ \A i \in 1..NStartup + 1 : All[2 + NCoords + i] = Wiped[i]
<1> DEFINE g == GlobalRecord(Defaults)
           f == g \o CoordRecords
<1>0. NCoords \in Nat /\ NStartup \in Nat
  BY Layout
<1>1. /\ g \in Seq(Writes) /\ Len(g) = 2
      /\ CoordRecords \in Seq(Writes) /\ Len(CoordRecords) = NCoords
      /\ Wiped \in Seq(Writes) /\ Len(Wiped) = NStartup + 1
      /\ All = f \o Wiped
  BY JobsTyped, DefaultsAssumption DEF All
<1>f. f = g \o CoordRecords
  OBVIOUS
<1>g. g[1] = Plain(Global, 0, <<Version>>) /\ g[2] = Record(Global, Encoded(Defaults))
  BY GlobalParts
<1> HIDE DEF g, f
<1>2. /\ f \in Seq(Writes) /\ Len(f) = Len(g) + Len(CoordRecords)
      /\ \A i \in 1..Len(g) : f[i] = g[i]
      /\ \A i \in 1..Len(CoordRecords) : f[Len(g) + i] = CoordRecords[i]
  <2>1. f \in Seq(Writes) /\ Len(f) = Len(g) + Len(CoordRecords)
    BY <1>1, <1>f, Joined, Zenon
  <2>0. g \in Seq(Writes) /\ CoordRecords \in Seq(Writes)
    BY <1>1
  <2>2. ASSUME NEW i \in 1..Len(g) PROVE f[i] = g[i]
    <3>1. (g \o CoordRecords)[i] = g[i]
      BY <2>0, Joined
    <3> QED
      BY <1>f, <3>1
  <2>3. ASSUME NEW i \in 1..Len(CoordRecords) PROVE f[Len(g) + i] = CoordRecords[i]
    <3>1. (g \o CoordRecords)[Len(g) + i] = CoordRecords[i]
      BY <2>0, Joined
    <3> QED
      BY <1>f, <3>1
  <2> QED
    BY <2>1, <2>2, <2>3
<1>3. /\ Len(All) = Len(f) + Len(Wiped)
      /\ \A i \in 1..Len(f) : All[i] = f[i]
      /\ \A i \in 1..Len(Wiped) : All[Len(f) + i] = Wiped[i]
  <2>1. Len(All) = Len(f) + Len(Wiped)
    BY <1>1, <1>2, Joined, Zenon
  <2>2. \A i \in 1..Len(f) : All[i] = f[i]
    BY <1>1, <1>2, Joined
  <2>3. \A i \in 1..Len(Wiped) : All[Len(f) + i] = Wiped[i]
    BY <1>1, <1>2, Joined
  <2> QED
    BY <2>1, <2>2, <2>3
<1>4. Len(f) = 2 + NCoords
  BY <1>1, <1>2
<1>5. ASSUME NEW i \in 1..NCoords PROVE All[2 + i] = CoordRecords[i]
  BY <1>0, <1>1, <1>2, <1>3, <1>4
<1>6. 1 \in 1..Len(f) /\ 2 \in 1..Len(f) /\ 1 \in 1..Len(g) /\ 2 \in 1..Len(g)
  BY <1>0, <1>1, <1>4
<1> QED
  BY <1>0, <1>1, <1>g, <1>2, <1>3, <1>4, <1>5, <1>6

LEMMA FitsAll == Fits(All)
<1>0. NCoords \in Nat /\ NStartup \in Nat
  BY Layout
<1>1. ASSUME NEW i \in 1..2 PROVE All[i].of = Global /\ (i = 1 => All[i].data = NoData)
  BY AllParts DEF Plain, Record
<1>2. ASSUME NEW i \in 3..2 + NCoords
      PROVE  All[i].of = Coord(i - 3) /\ i - 3 \in 0..NCoords - 1
  <2>1. i - 2 \in 1..NCoords /\ 2 + (i - 2) = i /\ (i - 2) - 1 = i - 3
    BY <1>0
  <2>2. All[i] = Record(Coord(i - 3), Zero)
    BY <2>1, AllParts, CoordParts
  <2> QED
    BY <1>0, <2>2 DEF Record
<1>3. ASSUME NEW i \in 3 + NCoords..Len(All)
      PROVE  /\ All[i].data = NoData /\ All[i].of \in Records
             /\ All[i].of # Global /\ \A k : All[i].of # Coord(k)
  <2>1. i - 2 - NCoords \in 1..NStartup + 1 /\ 2 + NCoords + (i - 2 - NCoords) = i
    BY <1>0, AllParts
  <2> QED
    BY <2>1, AllParts, WipedParts
<1>4. \A i \in 1..Len(All) : i \in 1..2 \/ i \in 3..2 + NCoords \/ i \in 3 + NCoords..Len(All)
  BY <1>0, AllParts
<1>5. ASSUME NEW i \in 1..Len(All) PROVE All[i].of \in Records
  BY <1>1, <1>2, <1>3, <1>4, InRecords
<1>6. ASSUME NEW i \in 1..Len(All), NEW j \in 1..Len(All), i < j, All[i].of = All[j].of
      PROVE  All[i].data = NoData
  <2>1. CASE i \in 1..2
    <3>1. j \in 1..2
      BY <1>1, <1>2, <1>3, <1>4, <1>6, <2>1, Distinct
    <3>2. i = 1
      BY <1>6, <2>1, <3>1
    <3> QED
      BY <1>1, <3>2
  <2>2. CASE i \in 3..2 + NCoords
    <3>1. j \notin 1..2
      BY <1>6, <2>2
    <3>2. j \in 3..2 + NCoords
      BY <1>2, <1>3, <1>4, <1>6, <2>2, <3>1
    <3>3. i - 3 = j - 3
      BY <1>2, <1>6, <2>2, <3>2, Distinct
    <3> QED
      BY <1>6, <3>3
  <2>3. CASE i \in 3 + NCoords..Len(All)
    BY <1>3, <2>3
  <2> QED
    BY <1>4, <2>1, <2>2, <2>3
<1> QED
  BY <1>5, <1>6 DEF Fits

StartupsInRange == StartupIndexes \subseteq 0..NStartup - 1

\* The main program goes on at next, at once or after writing.
Goes(next) == \/ WriteNothing(next)
              \/ \E records \in Seq(Writes) : Fits(records) /\ Write(records, next)

LEMMA GoesKeeps ==
    ASSUME Kept, Jobs, UNCHANGED eeprom, pc # "write", NEW next \in Places3, Goes(next)
    PROVE  Kept' /\ Jobs'
<1>1. next # "write"
  BY DEF Places3
<1> QED
  BY <1>1, WriteKeeps, NothingKeeps DEF Goes

LEMMA GoesOne ==
    ASSUME NEW r \in Records, NEW d \in [1..Length(r) -> Bytes], NEW next,
           Write(<<Record(r, d)>>, next)
    PROVE  Goes(next)
BY RecordsNamed, OneWrite, FitsOne DEF Goes

LEMMA GoesHealed ==
    ASSUME Memory, NEW r \in Records, NEW next, Write(Healed(r), next)
    PROVE  Goes(next)
BY RecordsNamed, HealedTyped, FitsOne DEF Goes, Healed

LEMMA GoesZero ==
    ASSUME NEW i \in 0..NCoords - 1, NEW next, Write(<<Record(Coord(i), Zero)>>, next)
    PROVE  Goes(next)
BY ZeroTyped, Places, InRecords, GoesOne

LEMMA GoesCoord ==
    ASSUME NEW i \in 0..NCoords - 1, NEW c \in Coords, NEW next,
           Write(<<Record(Coord(i), c)>>, next)
    PROVE  Goes(next)
BY CoordWrite, Places, InRecords, GoesOne

LEMMA GoesMany ==
    ASSUME NEW next,
           \/ \E s \in SettingsType : Write(GlobalRecord(s), next)
           \/ Write(CoordRecords, next) \/ Write(All, next)
    PROVE  Goes(next)
BY JobsTyped, FitsGlobal, FitsCoords, FitsAll DEF Goes

LEMMA BootKeeps == Typed /\ Kept /\ Jobs /\ Boot => Kept' /\ Jobs'
<1> SUFFICES ASSUME Typed, Kept, Jobs, Boot PROVE Kept' /\ Jobs'
  OBVIOUS
<1>0. Memory /\ Ram /\ 0 \in 0..NCoords - 1
  BY Layout DEF Typed
<1>1. CASE PowerUp
  <2>1. /\ pc = "off" /\ pc' = "settings" /\ job = <<>>
        /\ UNCHANGED <<eeprom, job, byte, stored>>
    BY <1>1 DEF PowerUp, Jobs
  <2> QED
    BY <2>1 DEF Kept, Jobs, Open, InPlace
<1>2. CASE LoadSettings
  BY <1>2, GoesKeeps, GoesMany DEF LoadSettings, Goes, Places3
<1>3. CASE LoadSystem
  BY <1>0, <1>3, GoesKeeps, GoesZero DEF LoadSystem, Goes, Places3
<1>4. CASE ExecuteStartup
  <2>1. CASE state = "alarm" \/ startup = NStartup
    BY <1>4, <2>1, GoesKeeps DEF ExecuteStartup, Goes, Places3
  <2>2. CASE ~(state = "alarm" \/ startup = NStartup)
    <3>1. startup \in 0..NStartup - 1
      BY <1>0, <2>2, Layout DEF Ram
    <3>2. Startup(startup) \in Records
      BY <3>1, InRecords
    <3>3. Goes("startup") /\ UNCHANGED eeprom /\ pc = "startup"
      BY <1>0, <1>4, <2>2, <3>2, GoesHealed DEF ExecuteStartup, Goes
    <3> QED
      BY <3>3, GoesKeeps DEF Places3
  <2> QED
    BY <2>1, <2>2
<1> QED
  BY <1>1, <1>2, <1>3, <1>4 DEF Boot

\* A line that goes on in the main loop, or behind a reset.
LEMMA LineKeeps ==
    ASSUME Kept, Jobs, Line, NEW next \in Places3, Goes(next)
    PROVE  Kept' /\ Jobs'
BY GoesKeeps DEF Line

LEMMA CommandKeeps ==
    ASSUME StartupsInRange
    PROVE  Typed /\ Kept /\ Jobs /\ Command => Kept' /\ Jobs'
<1> SUFFICES ASSUME Typed, Kept, Jobs, Command PROVE Kept' /\ Jobs'
  OBVIOUS
<1>0. Memory /\ Ram /\ "main" \in Places3 /\ "parser" \in Places3
  BY DEF Typed, Places3
<1>1. CASE StoreSetting
  <2>1. PICK new : Set(new) /\ new \in SettingsType
    BY <1>0, <1>1, StoreSettingSets
  <2> QED
    BY <1>0, <2>1, LineKeeps, GoesMany DEF Set
<1>2. CASE Restore
  <2>1. Line /\ Goes("parser")
    BY <1>2, GoesMany, DefaultsAssumption DEF Restore
  <2> QED
    BY <1>0, <2>1, LineKeeps
<1>3. CASE StoreStartup
  <2>1. PICK n \in StartupIndexes, l \in Lines : Write(<<Record(Startup(n), l)>>, "main")
    BY <1>3 DEF StoreStartup
  <2>2. Startup(n) \in Records /\ l \in [1..Length(Startup(n)) -> Bytes]
    BY InputsAssumption, Places, InRecords DEF StartupsInRange
  <2> QED
    BY <1>0, <1>3, <2>1, <2>2, GoesOne, LineKeeps DEF StoreStartup
<1>4. CASE StoreBuild
  <2>1. PICK l \in Lines : Write(<<Record(Build, l)>>, "main")
    BY <1>4 DEF StoreBuild
  <2>2. Build \in Records /\ l \in [1..Length(Build) -> Bytes]
    BY InputsAssumption, Places, InRecords
  <2> QED
    BY <1>0, <1>4, <2>1, <2>2, GoesOne, LineKeeps DEF StoreBuild
<1>5. ASSUME NEW r \in {Build} \cup {Startup(n) : n \in 0..NStartup - 1}, Show(r)
      PROVE  Kept' /\ Jobs'
  <2>1. r \in Records
    BY InRecords
  <2> QED
    BY <1>0, <1>5, <2>1, GoesHealed, LineKeeps DEF Show
<1>6. CASE ShowParameters
  <2>1. PICK i \in 0..NCoords - 1 : Write(<<Record(Coord(i), Zero)>>, "main")
    BY <1>6 DEF ShowParameters
  <2> QED
    BY <1>0, <1>6, <2>1, GoesZero, LineKeeps DEF ShowParameters
<1>7. ASSUME NEW i \in 0..NSystems - 1, SelectSystem(i) PROVE Kept' /\ Jobs'
  <2>1. i \in 0..NCoords - 1
    BY Layout
  <2>2. Line /\ Goes("main")
    BY <1>7, <2>1, GoesZero DEF SelectSystem, Goes
  <2> QED
    BY <1>0, <2>2, LineKeeps
<1>8. ASSUME NEW i \in 0..NSystems - 1, SetSystem(i) PROVE Kept' /\ Jobs'
  <2>1. i \in 0..NCoords - 1
    BY Layout
  <2>2. \/ \E c \in Coords : Write(<<Record(Coord(i), c)>>, "main")
        \/ Write(<<Record(Coord(i), Zero)>>, "main")
    BY <1>8 DEF SetSystem
  <2>3. Line /\ Goes("main")
    BY <1>8, <2>1, <2>2, GoesZero, GoesCoord DEF SetSystem
  <2> QED
    BY <1>0, <2>3, LineKeeps
<1>9. CASE SetHome
  <2>1. PICK i \in {NSystems, NSystems + 1}, c \in Coords :
               Write(<<Record(Coord(i), c)>>, "main")
    BY <1>9 DEF SetHome
  <2>2. i \in 0..NCoords - 1
    BY Layout
  <2>3. Line /\ Goes("main")
    BY <1>9, <2>1, <2>2, GoesCoord DEF SetHome
  <2> QED
    BY <1>0, <2>3, LineKeeps
<1>10. CASE Unlock
  <2>1. UNCHANGED <<eeprom, job, byte, pc, then, stored>>
    BY <1>10 DEF Unlock, Line, writing
  <2> QED
    BY <2>1 DEF Kept, Jobs, Open, InPlace
<1>11. CASE Reset
  BY <1>0, <1>11, LineKeeps DEF Reset, Goes
<1> QED
  BY <1>1, <1>2, <1>3, <1>4, <1>5, <1>6, <1>7, <1>8, <1>9, <1>10, <1>11 DEF Command

LEMMA PowerLossKeeps == Typed /\ Kept /\ Jobs /\ PowerLoss => Kept' /\ Jobs'
<1> SUFFICES ASSUME Typed, Kept, Jobs, PowerLoss PROVE Kept' /\ Jobs'
  OBVIOUS
<1>1. job' = <<>> /\ pc' = "off" /\ stored' = stored
  BY DEF PowerLoss
<1>2. ASSUME NEW r \in Records, stored[r] # NoData, NEW a \in Cells(r)
      PROVE  eeprom'[a] = eeprom[a]
  <2> DEFINE w == Head(job)
  <2>1. CASE UNCHANGED eeprom
    BY <2>1
  <2>2. CASE ~UNCHANGED eeprom
    <3>1. pc = "write" /\ eeprom' = [eeprom EXCEPT ![(w.at + byte - 1) % Size] = Erased]
      BY <2>2 DEF PowerLoss
    <3>2. /\ w \in Writes /\ byte \in 1..Len(w.bytes) /\ w.at \in Nat
      BY <3>1, HeadTyped DEF Typed
    <3>3. job \in Seq(Writes) /\ job # <<>>
      BY <3>1 DEF Typed, Writing
    <3>4. w = job[1] /\ 1 \in 1..Len(job)
      BY <3>3
    <3>5. w.of \in Records /\ w.of # r
      BY <1>2, <3>4 DEF Jobs, Fits, Open
    <3> HIDE DEF w
    <3>6. /\ w.at + byte - 1 \in 0..Size - 1 /\ (w.at + byte - 1) % Size = w.at + byte - 1
          /\ \/ w.at = 0 /\ byte = 1
             \/ w.at + byte - 1 \in Cells(w.of)
      BY <3>2, <3>5, Spot
    <3>7. a # w.at + byte - 1
      BY <3>5, <3>6, InMemory, Apart, Layout
    <3>8. a \in 0..Size - 1
      BY InMemory, Layout
    <3> QED
      BY <3>1, <3>6, <3>7, <3>8 DEF Typed, Memory
  <2> QED
    BY <2>1, <2>2
<1>3. Kept'
  BY <1>1, <1>2, HoldsFrame DEF Kept
<1> QED
  BY <1>1, <1>3 DEF Jobs, Fits, Open, InPlace

LEMMA KeptInit == Init => Kept /\ Jobs
BY DEF Init, Kept, Jobs, Fits, Open, InPlace

LEMMA KeptInductive ==
    ASSUME StartupsInRange
    PROVE  Typed /\ Kept /\ Jobs /\ [Next]_vars => Kept' /\ Jobs'
<1>1. Kept /\ Jobs /\ UNCHANGED vars => Kept' /\ Jobs'
  BY DEF Kept, Jobs, Open, InPlace, vars, writing, ram
<1> QED
  BY <1>1, BootKeeps, CommandKeeps, ByteKeeps, PowerLossKeeps DEF Next

LEMMA KeptMeans == Typed /\ Kept => RecordsKept
BY HoldsIs DEF Typed, Kept, RecordsKept

\* With an index of $Nn= that there is (system.c:263 does not compare it with
\* N_STARTUP_LINE), whatever was stored in a record is still there, however
\* many records were written, restored or torn since.
THEOREM RecordsAlwaysKept ==
    ASSUME StartupsInRange
    PROVE  Spec => []RecordsKept
<1>1. Spec => [](Typed /\ Kept /\ Jobs)
  BY InitTyped, TypedInductive, KeptInit, KeptInductive, PTL DEF Spec
<1> QED
  BY <1>1, KeptMeans, PTL

-----------------------------------------------------------------------------
(* The RAM is saved.  The inductive invariant says of every place of the    *)
(* program what the EEPROM will hold when the job is done.                  *)

\* After the writes j on top of e, d is in the place of r.
Will(e, j, r, d) ==
    \/ \E i \in 1..Len(j) : /\ j[i] = Record(r, d) /\ d \in [1..Length(r) -> Bytes]
                            /\ \A m \in i + 1..Len(j) : j[m].of # r
    \/ (\A i \in 1..Len(j) : j[i].of # r) /\ Holds(e, r, d)
\* And the version is in front.
Starts(e, j) == e[0] = Version \/ \E i \in 1..Len(j) : j[i].at = 0

Goal == IF pc = "write" THEN then ELSE pc
SettingsSaved == Goal \in Places3 =>
    /\ Starts(eeprom, job)
    /\ \E d \in [1..GlobalSize -> Bytes] :
          Will(eeprom, job, Global, d) /\ Decoded(d) = settings
CoordSaved == Goal \in {"startup", "main"} => Will(eeprom, job, Coord(select), coord)

LEMMA WillOther ==
    ASSUME NEW e, NEW j, NEW r, NEW d, \A i \in 1..Len(j) : j[i].of # r, Holds(e, r, d)
    PROVE  Will(e, j, r, d)
BY DEF Will

LEMMA WillIdle ==
    ASSUME NEW e, NEW r, NEW d
    PROVE  /\ Will(e, <<>>, r, d) <=> Holds(e, r, d)
           /\ Starts(e, <<>>) <=> e[0] = Version
BY DEF Will, Starts

LEMMA WillOne ==
    ASSUME NEW e, NEW r, NEW d \in [1..Length(r) -> Bytes]
    PROVE  Will(e, <<Record(r, d)>>, r, d)
<1> DEFINE j == <<Record(r, d)>>
<1>1. Len(j) = 1 /\ j[1] = Record(r, d)
  OBVIOUS
<1> HIDE DEF j
<1>2. 1 \in 1..Len(j) /\ \A m \in 1 + 1..Len(j) : j[m].of # r
  BY <1>1
<1>3. Will(e, j, r, d)
  BY <1>1, <1>2 DEF Will
<1> QED
  BY <1>3 DEF j

LEMMA WillGlobal ==
    ASSUME NEW e, NEW s \in SettingsType
    PROVE  /\ Will(e, GlobalRecord(s), Global, Encoded(s))
           /\ Starts(e, GlobalRecord(s))
<1>1. Encoded(s) \in [1..Length(Global) -> Bytes]
  BY EncodedTyped, Places
<1>g. Len(GlobalRecord(s)) = 2
  BY GlobalParts, Zenon
<1>2. 2 \in 1..Len(GlobalRecord(s)) /\ 1 \in 1..Len(GlobalRecord(s))
  BY <1>g
<1>3. \A m \in 2 + 1..Len(GlobalRecord(s)) : FALSE
  BY <1>g
<1>4. GlobalRecord(s)[1].at = 0
  BY GlobalParts DEF Plain
<1> QED
  BY <1>1, <1>2, <1>3, <1>4, GlobalParts DEF Will, Starts

LEMMA AllOthers ==
    ASSUME NEW m \in 3..Len(All)
    PROVE  All[m].of # Global
<1>0. NCoords \in Nat /\ NStartup \in Nat /\ Len(All) = 2 + NCoords + (NStartup + 1)
  BY Layout, AllParts
<1>1. CASE m \in 3..2 + NCoords
  <2>1. m - 2 \in 1..NCoords /\ 2 + (m - 2) = m
    BY <1>0, <1>1
  <2>2. All[m] = Record(Coord(m - 2 - 1), Zero)
    BY <2>1, AllParts, CoordParts
  <2> QED
    BY <2>2, RecordOf, Distinct
<1>2. CASE m \notin 3..2 + NCoords
  <2>1. m - 2 - NCoords \in 1..NStartup + 1 /\ 2 + NCoords + (m - 2 - NCoords) = m
    BY <1>0, <1>2
  <2> QED
    BY <2>1, AllParts, WipedParts
<1> QED
  BY <1>1, <1>2

LEMMA WillAll ==
    ASSUME NEW e
    PROVE  Will(e, All, Global, Encoded(Defaults)) /\ Starts(e, All)
<1>0. NCoords \in Nat /\ NStartup \in Nat
  BY Layout
<1>1. Encoded(Defaults) \in [1..Length(Global) -> Bytes]
  BY EncodedTyped, DefaultsAssumption, Places
<1>2. 2 \in 1..Len(All) /\ 1 \in 1..Len(All)
  BY <1>0, AllParts
<1>3. \A m \in 2 + 1..Len(All) : All[m].of # Global
  BY AllOthers
<1>4. All[1].at = 0
  BY AllParts DEF Plain
<1> QED
  BY <1>1, <1>2, <1>3, <1>4, AllParts DEF Will, Starts

LEMMA ByteWill ==
    ASSUME Typed, Jobs, WriteByte, NEW r \in Records, NEW d, Will(eeprom, job, r, d)
    PROVE  Will(eeprom', job', r, d)
<1> DEFINE w == Head(job)
           last == byte = Len(w.bytes)
<1>0. /\ pc = "write" /\ job \in Seq(Writes) /\ job # <<>> /\ Fits(job) /\ InPlace
  BY DEF WriteByte, Typed, Writing, Jobs
<1>1. /\ w \in Writes /\ w.of \in Records /\ w = job[1]
      /\ \A s \in Records \ {w.of} : \A a \in Cells(s) : eeprom'[a] = eeprom[a]
  BY <1>0, ByteWritten
<1>2. 1 \in 1..Len(job) /\ Len(job) \in Nat
  BY <1>0
<1>3. job' = IF last THEN Tail(job) ELSE job
  BY DEF WriteByte
<1>4. last /\ Whole(w) => Holds(eeprom', w.of, w.data)
  BY <1>0, RecordWritten
<1>5. /\ Len(Tail(job)) = Len(job) - 1
      /\ \A i \in 1..Len(Tail(job)) : Tail(job)[i] = job[i + 1] /\ i + 1 \in 1..Len(job)
  BY <1>0, <1>2
<1> HIDE DEF w, last
<1>6. CASE (\A i \in 1..Len(job) : job[i].of # r) /\ Holds(eeprom, r, d)
  <2>1. Holds(eeprom', r, d)
    BY <1>1, <1>2, <1>6, HoldsFrame
  <2>2. \A i \in 1..Len(job') : job'[i].of # r
    BY <1>3, <1>5, <1>6
  <2> QED
    BY <2>1, <2>2, WillOther
<1>7. ASSUME NEW i \in 1..Len(job), job[i] = Record(r, d), d \in [1..Length(r) -> Bytes],
             \A m \in i + 1..Len(job) : job[m].of # r
      PROVE  Will(eeprom', job', r, d)
  <2>1. CASE ~last
    BY <1>3, <1>7, <2>1 DEF Will
  <2>2. CASE last /\ i = 1
    <3>1. Whole(w) /\ w.of = r /\ w.data = d
      BY <1>1, <1>7, <2>2, RecordsNamed, RecordWrites, RecordOf
    <3>2. Holds(eeprom', r, d)
      BY <1>4, <2>2, <3>1
    <3>3. ASSUME NEW k \in 1..Len(job') PROVE job'[k].of # r
      <4>1. job'[k] = job[k + 1] /\ k + 1 \in 1 + 1..Len(job)
        BY <1>2, <1>3, <1>5, <2>2
      <4> QED
        BY <1>7, <2>2, <4>1
    <3> QED
      BY <3>2, <3>3, WillOther
  <2>3. CASE last /\ i # 1
    <3>1. i - 1 \in 1..Len(job') /\ job'[i - 1] = Record(r, d)
      <4>1. i - 1 \in 1..Len(Tail(job)) /\ (i - 1) + 1 = i
        BY <1>2, <1>5, <2>3
      <4> QED
        BY <1>3, <1>5, <1>7, <2>3, <4>1
    <3>2. ASSUME NEW k \in (i - 1) + 1..Len(job') PROVE job'[k].of # r
      <4>1. k \in 1..Len(Tail(job)) /\ k + 1 \in i + 1..Len(job)
        BY <1>2, <1>3, <1>5, <2>3
      <4>2. job'[k] = job[k + 1]
        BY <1>3, <1>5, <2>3, <4>1
      <4> QED
        BY <1>7, <4>1, <4>2
    <3> QED
      BY <1>7, <3>1, <3>2 DEF Will
  <2> QED
    BY <2>1, <2>2, <2>3
<1> QED
  BY <1>6, <1>7 DEF Will

LEMMA ByteStarts ==
    ASSUME Typed, Jobs, WriteByte, Starts(eeprom, job)
    PROVE  Starts(eeprom', job')
<1> DEFINE w == Head(job)
           last == byte = Len(w.bytes)
<1>0. /\ pc = "write" /\ Memory /\ job \in Seq(Writes) /\ job # <<>> /\ Fits(job) /\ InPlace
  BY DEF WriteByte, Typed, Writing, Jobs
<1>1. /\ w \in Writes /\ w.of \in Records /\ w = job[1] /\ byte \in 1..Len(w.bytes)
      /\ w.at + byte - 1 \in 0..Size - 1
      /\ eeprom' = [eeprom EXCEPT ![w.at + byte - 1] = w.bytes[byte]]
  BY <1>0, ByteWritten
<1>2. 1 \in 1..Len(job) /\ Len(job) \in Nat
  BY <1>0
<1>3. job' = IF last THEN Tail(job) ELSE job
  BY DEF WriteByte
<1>5. /\ Len(Tail(job)) = Len(job) - 1
      /\ \A i \in 1..Len(Tail(job)) : Tail(job)[i] = job[i + 1]
  BY <1>0, <1>2
<1> HIDE DEF w, last
<1>6. \/ w.at = 0 /\ byte = 1 /\ w.bytes = <<Version>>
      \/ w.at # 0 /\ w.at + byte - 1 \in Cells(w.of)
  BY <1>1, Spot
<1>7. 0 \in 0..Size - 1 /\ 0 \notin Cells(w.of)
  BY <1>1, InMemory, Layout
<1>8. w.at = 0 => eeprom'[0] = Version
  <2>1. ASSUME w.at = 0 PROVE eeprom'[0] = Version
    <3>1. byte = 1 /\ w.bytes[1] = Version /\ w.at + byte - 1 = 0
      BY <1>6, <2>1
    <3> QED
      BY <1>0, <1>1, <1>7, <3>1 DEF Memory
  <2> QED
    BY <2>1
<1>9. eeprom[0] = Version => eeprom'[0] = Version
  <2>1. ASSUME w.at # 0 PROVE eeprom'[0] = eeprom[0]
    <3>1. w.at + byte - 1 # 0
      BY <1>6, <1>7, <2>1
    <3> QED
      BY <1>0, <1>1, <1>7, <3>1 DEF Memory
  <2> QED
    BY <1>8, <2>1
<1>10. ASSUME NEW i \in 1..Len(job), job[i].at = 0, i # 1 PROVE Starts(eeprom', job')
  <2>1. CASE ~last
    BY <1>3, <1>10, <2>1 DEF Starts
  <2>2. CASE last
    <3>1. i - 1 \in 1..Len(Tail(job)) /\ (i - 1) + 1 = i
      BY <1>2, <1>5, <1>10
    <3>2. Tail(job)[i - 1].at = 0
      BY <1>5, <1>10, <3>1
    <3> QED
      BY <1>3, <2>2, <3>1, <3>2 DEF Starts
  <2> QED
    BY <2>1, <2>2
<1> QED
  BY <1>1, <1>8, <1>9, <1>10 DEF Starts

LEMMA ByteSaves == Typed /\ Jobs /\ SettingsSaved /\ CoordSaved /\ WriteByte
                     => SettingsSaved' /\ CoordSaved'
<1> SUFFICES ASSUME Typed, Jobs, SettingsSaved, CoordSaved, WriteByte
             PROVE  SettingsSaved' /\ CoordSaved'
  OBVIOUS
<1>1. Goal' = Goal
  BY DEF Goal, WriteByte, Typed, Writing
<1>2. settings' = settings /\ select' = select /\ coord' = coord
  BY DEF WriteByte, ram
<1>3. Global \in Records /\ Coord(select) \in Records
  BY InRecords, Layout DEF Typed, Ram
<1>4. SettingsSaved'
  BY <1>1, <1>2, <1>3, ByteWill, ByteStarts DEF SettingsSaved
<1>5. CoordSaved'
  BY <1>1, <1>2, <1>3, ByteWill DEF CoordSaved
<1> QED
  BY <1>4, <1>5

\* A step that writes nothing of the settings, or of the system.
LEMMA SettingsStay ==
    ASSUME Jobs, pc \in Places3, SettingsSaved, UNCHANGED <<eeprom, settings>>,
           \A i \in 1..Len(job') : job'[i].of # Global
    PROVE  SettingsSaved'
<1>1. job = <<>> /\ Goal = pc
  BY DEF Jobs, Places3, Goal
<1>2. eeprom[0] = Version
  BY <1>1, WillIdle DEF SettingsSaved
<1>3. PICK d \in [1..GlobalSize -> Bytes] : Holds(eeprom, Global, d) /\ Decoded(d) = settings
  BY <1>1, WillIdle DEF SettingsSaved
<1>4. Will(eeprom, job', Global, d)
  BY <1>3, WillOther
<1> QED
  BY <1>2, <1>3, <1>4 DEF SettingsSaved, Starts

LEMMA CoordStays ==
    ASSUME Jobs, pc \in {"startup", "main"}, CoordSaved, UNCHANGED <<eeprom, select, coord>>,
           \A i \in 1..Len(job') : job'[i].of # Coord(select)
    PROVE  CoordSaved'
<1>1. job = <<>> /\ Goal = pc
  BY DEF Jobs, Goal
<1>2. Holds(eeprom, Coord(select), coord)
  BY <1>1, WillIdle DEF CoordSaved
<1>3. Will(eeprom, job', Coord(select), coord)
  BY <1>2, WillOther
<1> QED
  BY <1>3 DEF CoordSaved

LEMMA GoalAfter ==
    ASSUME NEW next \in Places3
    PROVE  /\ \A records : Write(records, next) => Goal' = next /\ job' = records
           /\ WriteNothing(next) => Goal' = next /\ job' = job
BY DEF Goal, Write, WriteNothing, Places3

LEMMA OnlyOne ==
    ASSUME NEW r, NEW d, NEW i \in 1..Len(<<Record(r, d)>>)
    PROVE  <<Record(r, d)>>[i].of = r
<1>1. i = 1
  OBVIOUS
<1> QED
  BY <1>1, RecordOf

LEMMA BootSaves == Typed /\ Jobs /\ SettingsSaved /\ CoordSaved /\ Boot
                     => SettingsSaved' /\ CoordSaved'
<1> SUFFICES ASSUME Typed, Jobs, SettingsSaved, CoordSaved, Boot
             PROVE  SettingsSaved' /\ CoordSaved'
  OBVIOUS
<1>0. /\ Memory /\ Ram /\ 0 \in 0..NCoords - 1 /\ Coord(0) \in Records
      /\ Global \in Records /\ (pc # "write" => job = <<>>)
  <2>1. 0 \in 0..NCoords - 1
    BY Layout
  <2>2. pc # "write" => job = <<>>
    BY Zenon DEF Jobs
  <2> QED
    BY <2>1, <2>2, InRecords DEF Typed
<1>1. CASE PowerUp
  BY <1>1 DEF PowerUp, SettingsSaved, CoordSaved, Goal, Places3
<1>2. CASE LoadSettings
  <2>1. Goal' = "parser"
    BY <1>2, GoalAfter DEF LoadSettings, Places3
  <2>2. CoordSaved'
    BY <2>1 DEF CoordSaved
  <2>3. CASE At(0) = Version /\ Valid(Global)
    <3>1. job' = <<>> /\ eeprom' = eeprom /\ settings' = Decoded(Data(Global))
      BY <1>0, <1>2, <2>3, GoalAfter DEF LoadSettings, Places3
    <3>2. Holds(eeprom, Global, Data(Global))
      BY <1>0, <2>3, HoldsIs
    <3>3. Data(Global) \in [1..GlobalSize -> Bytes]
      BY <1>0, RecordsNamed, DataTyped, Places
    <3>4. eeprom[0] = Version
      BY <2>3, Layout DEF At
    <3>5. Will(eeprom', job', Global, Data(Global)) /\ Starts(eeprom', job')
      BY <3>1, <3>2, <3>4, WillIdle
    <3>6. \E d \in [1..GlobalSize -> Bytes] :
             Will(eeprom', job', Global, d) /\ Decoded(d) = settings'
      BY <3>1, <3>3, <3>5
    <3> QED
      BY <2>2, <3>5, <3>6 DEF SettingsSaved
  <2>4. CASE ~(At(0) = Version /\ Valid(Global))
    <3>1. job' = All /\ settings' = Defaults
      BY <1>2, <2>4, GoalAfter DEF LoadSettings, Places3
    <3>2. /\ Encoded(Defaults) \in [1..GlobalSize -> Bytes]
          /\ Decoded(Encoded(Defaults)) = Defaults
      BY EncodedTyped, DefaultsAssumption
    <3>3. Will(eeprom', job', Global, Encoded(Defaults)) /\ Starts(eeprom', job')
      BY <3>1, WillAll
    <3>4. \E d \in [1..GlobalSize -> Bytes] :
             Will(eeprom', job', Global, d) /\ Decoded(d) = settings'
      BY <3>1, <3>2, <3>3
    <3> QED
      BY <2>2, <3>3, <3>4 DEF SettingsSaved
  <2> QED
    BY <2>3, <2>4
<1>3. CASE LoadSystem
  <2>1. /\ pc = "parser" /\ UNCHANGED <<eeprom, settings>> /\ select' = 0
    BY <1>3 DEF LoadSystem
  <2>2. CASE Valid(Coord(0))
    <3>1. job' = <<>> /\ coord' = Data(Coord(0))
      BY <1>0, <1>3, <2>1, <2>2, GoalAfter DEF LoadSystem, Places3
    <3>2. SettingsSaved'
      BY <2>1, <3>1, SettingsStay DEF Places3
    <3>3. Holds(eeprom, Coord(0), Data(Coord(0)))
      BY <1>0, <2>2, HoldsIs
    <3> QED
      BY <2>1, <3>1, <3>2, <3>3, WillIdle DEF CoordSaved
  <2>3. CASE ~Valid(Coord(0))
    <3>1. job' = <<Record(Coord(0), Zero)>> /\ coord' = Zero
      BY <1>3, <2>3, GoalAfter DEF LoadSystem, Places3
    <3>2. SettingsSaved'
      BY <2>1, <3>1, SettingsStay, OnlyOne, Distinct DEF Places3
    <3>3. Will(eeprom', job', Coord(0), Zero)
      BY <3>1, ZeroTyped, Places, WillOne
    <3> QED
      BY <2>1, <3>1, <3>2, <3>3 DEF CoordSaved
  <2> QED
    BY <2>2, <2>3
<1>4. CASE ExecuteStartup
  <2>1. pc = "startup" /\ UNCHANGED <<eeprom, settings, select, coord>> /\ job = <<>>
    BY <1>0, <1>4 DEF ExecuteStartup
  <2>2. \/ job' = <<>> \/ job' = Healed(Startup(startup))
    BY <1>4, <2>1, GoalAfter DEF ExecuteStartup, Places3
  <2>3. \A i \in 1..Len(job') : job'[i].of # Global /\ \A k : job'[i].of # Coord(k)
    BY <2>2, OnlyOne, Distinct DEF Healed
  <2> QED
    BY <2>1, <2>3, SettingsStay, CoordStays DEF Places3
<1> QED
  BY <1>1, <1>2, <1>3, <1>4 DEF Boot

\* A command that leaves the RAM alone and writes one other record, or none.
LEMMA OtherSaves ==
    ASSUME Jobs, SettingsSaved, CoordSaved, Line, UNCHANGED ram,
           \A i \in 1..Len(job') : job'[i].of # Global /\ job'[i].of # Coord(select)
    PROVE  SettingsSaved' /\ CoordSaved'
<1>1. pc = "main" /\ UNCHANGED <<eeprom, settings, select, coord>>
  BY DEF Line, ram
<1> QED
  BY <1>1, SettingsStay, CoordStays DEF Places3

\* The system in use is one of those that can be written, and is valid.
LEMMA SelectedHeld ==
    ASSUME Typed, Jobs, CoordSaved, pc = "main"
    PROVE  /\ select \in 0..NCoords - 1 /\ select \notin {NSystems, NSystems + 1}
           /\ Coord(select) \in Records /\ Data(Coord(select)) = coord /\ Valid(Coord(select))
<1>1. select \in 0..NCoords - 1 /\ select \notin {NSystems, NSystems + 1}
  BY Layout DEF Typed, Ram
<1>2. Coord(select) \in Records
  BY <1>1, InRecords
<1>3. job = <<>> /\ Goal = "main"
  BY DEF Jobs, Goal
<1>4. Holds(eeprom, Coord(select), coord)
  BY <1>3, WillIdle DEF CoordSaved
<1> QED
  BY <1>1, <1>2, <1>4, HoldsIs DEF Typed

LEMMA SetSaves ==
    ASSUME Typed, Jobs, SettingsSaved, CoordSaved, NEW new \in SettingsType, Set(new)
    PROVE  SettingsSaved' /\ CoordSaved'
<1>1. /\ pc = "main" /\ UNCHANGED <<eeprom, select, coord>> /\ settings' = new
      /\ Write(GlobalRecord(new), "main")
  BY DEF Set, Line
<1>2. Goal' = "main" /\ job' = GlobalRecord(new)
  BY <1>1, GoalAfter DEF Places3
<1>3. /\ Encoded(new) \in [1..GlobalSize -> Bytes] /\ Decoded(Encoded(new)) = new
  BY EncodedTyped
<1>4. Will(eeprom', job', Global, Encoded(new)) /\ Starts(eeprom', job')
  BY <1>2, WillGlobal
<1>5. \E d \in [1..GlobalSize -> Bytes] :
         Will(eeprom', job', Global, d) /\ Decoded(d) = settings'
  BY <1>1, <1>3, <1>4
<1>6. SettingsSaved'
  BY <1>4, <1>5 DEF SettingsSaved
<1>7. ASSUME NEW i \in 1..Len(job') PROVE job'[i].of # Coord(select)
  <2>1. Len(GlobalRecord(new)) = 2
    BY GlobalParts, Zenon
  <2>2. i = 1 \/ i = 2
    BY <1>2, <2>1
  <2>3. GlobalRecord(new)[1].of = Global
    BY GlobalParts DEF Plain
  <2>4. GlobalRecord(new)[2].of = Global
    BY GlobalParts, RecordOf
  <2> QED
    BY <1>2, <2>2, <2>3, <2>4, Distinct
<1>8. CoordSaved'
  BY <1>1, <1>7, CoordStays
<1> QED
  BY <1>6, <1>8

LEMMA CommandSaves ==
    ASSUME StartupsInRange
    PROVE  Typed /\ Jobs /\ SettingsSaved /\ CoordSaved /\ Command
             => SettingsSaved' /\ CoordSaved'
<1> SUFFICES ASSUME Typed, Jobs, SettingsSaved, CoordSaved, Command
             PROVE  SettingsSaved' /\ CoordSaved'
  OBVIOUS
<1>0. /\ Memory /\ Ram /\ "main" \in Places3 /\ "parser" \in Places3
      /\ Global \in Records /\ (pc # "write" => job = <<>>)
  <2>1. pc # "write" => job = <<>>
    BY Zenon DEF Jobs
  <2> QED
    BY <2>1, InRecords DEF Typed, Places3
<1>s. \A i : i \in 0..NSystems - 1 => i \in 0..NCoords - 1 /\ Coord(i) \in Records
  BY Layout, InRecords
<1>1. CASE StoreSetting
  <2>1. PICK new : Set(new) /\ new \in SettingsType
    BY <1>0, <1>1, StoreSettingSets
  <2> QED
    BY <2>1, SetSaves
<1>2. CASE Restore
  <2>1. pc = "main" /\ UNCHANGED <<eeprom, select, coord>>
    BY <1>2 DEF Restore, Line
  <2>2. PICK records :
          /\ Write(records, "parser")
          /\ \/ records = GlobalRecord(Defaults) /\ settings' = Defaults
             \/ records = CoordRecords /\ settings' = settings
             \/ records = All /\ settings' = Defaults
    BY <1>2 DEF Restore
  <2>3. Goal' = "parser" /\ job' = records
    BY <1>0, <2>2, GoalAfter
  <2>4. CoordSaved'
    BY <2>3 DEF CoordSaved
  <2>5. CASE records = CoordRecords /\ settings' = settings
    <3>1. \A i \in 1..Len(job') : job'[i].of # Global
      BY <2>3, <2>5, CoordOthers
    <3> QED
      BY <1>0, <2>1, <2>4, <2>5, <3>1, SettingsStay
  <2>6. CASE records \in {GlobalRecord(Defaults), All} /\ settings' = Defaults
    <3>1. /\ Encoded(Defaults) \in [1..GlobalSize -> Bytes]
          /\ Decoded(Encoded(Defaults)) = Defaults
      BY EncodedTyped, DefaultsAssumption
    <3>2. Will(eeprom', job', Global, Encoded(Defaults)) /\ Starts(eeprom', job')
      BY <2>3, <2>6, WillAll, WillGlobal, DefaultsAssumption
    <3>3. \E d \in [1..GlobalSize -> Bytes] :
             Will(eeprom', job', Global, d) /\ Decoded(d) = settings'
      BY <2>6, <3>1, <3>2
    <3> QED
      BY <2>4, <3>2, <3>3 DEF SettingsSaved
  <2> QED
    BY <2>2, <2>5, <2>6
<1>3. CASE StoreStartup
  <2>1. PICK n \in StartupIndexes, l \in Lines : Write(<<Record(Startup(n), l)>>, "main")
    BY <1>3 DEF StoreStartup
  <2>2. job' = <<Record(Startup(n), l)>>
    BY <1>0, <2>1, GoalAfter
  <2>3. Line /\ UNCHANGED ram
    BY <1>3 DEF StoreStartup
  <2> QED
    BY <2>2, <2>3, OnlyOne, Distinct, OtherSaves
<1>4. CASE StoreBuild
  <2>1. PICK l \in Lines : Write(<<Record(Build, l)>>, "main")
    BY <1>4 DEF StoreBuild
  <2>2. job' = <<Record(Build, l)>>
    BY <1>0, <2>1, GoalAfter
  <2>3. Line /\ UNCHANGED ram
    BY <1>4 DEF StoreBuild
  <2> QED
    BY <2>2, <2>3, OnlyOne, Distinct, OtherSaves
<1>5. ASSUME NEW r \in {Build} \cup {Startup(n) : n \in 0..NStartup - 1}, Show(r)
      PROVE  SettingsSaved' /\ CoordSaved'
  <2>1. Line /\ UNCHANGED ram /\ Write(Healed(r), "main")
    BY <1>5 DEF Show
  <2>2. job' = Healed(r)
    BY <1>0, <2>1, GoalAfter
  <2>3. r # Global /\ r # Coord(select)
    BY Distinct
  <2> QED
    BY <2>1, <2>2, <2>3, OnlyOne, OtherSaves DEF Healed
<1>6. CASE ShowParameters
  <2>1. PICK i \in 0..NCoords - 1 : ~Valid(Coord(i)) /\ Write(<<Record(Coord(i), Zero)>>, "main")
    BY <1>6 DEF ShowParameters
  <2>2. job' = <<Record(Coord(i), Zero)>>
    BY <1>0, <2>1, GoalAfter
  <2>3. Line /\ UNCHANGED ram /\ pc = "main"
    BY <1>6 DEF ShowParameters, Line
  <2>4. Coord(i) # Coord(select) /\ Coord(i) # Global
    BY <2>1, <2>3, SelectedHeld, Distinct
  <2> QED
    BY <2>2, <2>3, <2>4, OnlyOne, OtherSaves
<1>7. ASSUME NEW i \in 0..NSystems - 1, SelectSystem(i) PROVE SettingsSaved' /\ CoordSaved'
  <2>1. /\ pc = "main" /\ UNCHANGED <<eeprom, settings>> /\ job = <<>>
        /\ Coord(i) \in Records /\ Coord(i) # Global
    BY <1>0, <1>7, <1>s, Distinct DEF SelectSystem, Line
  <2>2. CASE Valid(Coord(i))
    <3>1. job' = <<>> /\ select' = i /\ coord' = Data(Coord(i))
      BY <1>0, <1>7, <2>1, <2>2, GoalAfter DEF SelectSystem
    <3>2. Holds(eeprom, Coord(i), Data(Coord(i)))
      BY <1>0, <2>1, <2>2, HoldsIs
    <3>3. SettingsSaved'
      BY <1>0, <2>1, <3>1, SettingsStay
    <3> QED
      BY <2>1, <3>1, <3>2, <3>3, WillIdle DEF CoordSaved
  <2>3. CASE ~Valid(Coord(i))
    <3>1. job' = <<Record(Coord(i), Zero)>> /\ UNCHANGED <<select, coord>>
      BY <1>0, <1>7, <2>3, GoalAfter DEF SelectSystem
    <3>2. Coord(i) # Coord(select)
      BY <2>1, <2>3, SelectedHeld
    <3>3. SettingsSaved'
      BY <1>0, <2>1, <3>1, OnlyOne, SettingsStay
    <3>4. CoordSaved'
      BY <2>1, <3>1, <3>2, OnlyOne, CoordStays
    <3> QED
      BY <3>3, <3>4
  <2> QED
    BY <2>2, <2>3
<1>8. ASSUME NEW i \in 0..NSystems - 1, SetSystem(i) PROVE SettingsSaved' /\ CoordSaved'
  <2>1. /\ pc = "main" /\ UNCHANGED <<eeprom, settings, select>> /\ job = <<>>
        /\ Coord(i) \in Records /\ Coord(i) # Global /\ i \in 0..NCoords - 1
    BY <1>0, <1>8, <1>s, Distinct DEF SetSystem, Line
  <2>2. CASE Valid(Coord(i))
    <3>1. PICK c \in Coords : /\ Write(<<Record(Coord(i), c)>>, "main")
                              /\ coord' = IF i = select THEN c ELSE coord
      BY <1>8, <2>2 DEF SetSystem
    <3>2. job' = <<Record(Coord(i), c)>>
      BY <1>0, <3>1, GoalAfter
    <3>3. SettingsSaved'
      BY <1>0, <2>1, <3>2, OnlyOne, SettingsStay
    <3>4. CASE i = select
      <4>1. c \in [1..Length(Coord(i)) -> Bytes]
        BY <2>1, CoordWrite, Places
      <4>2. Will(eeprom', job', Coord(i), c)
        BY <3>2, <4>1, WillOne
      <4> QED
        BY <2>1, <3>1, <3>3, <3>4, <4>2 DEF CoordSaved
    <3>5. CASE i # select
      <4>1. Coord(i) # Coord(select) /\ coord' = coord
        BY <3>1, <3>5, Distinct
      <4> QED
        BY <2>1, <3>2, <3>3, <4>1, OnlyOne, CoordStays
    <3> QED
      BY <3>4, <3>5
  <2>3. CASE ~Valid(Coord(i))
    <3>1. job' = <<Record(Coord(i), Zero)>> /\ coord' = coord
      BY <1>0, <1>8, <2>3, GoalAfter DEF SetSystem
    <3>2. Coord(i) # Coord(select)
      BY <2>1, <2>3, SelectedHeld
    <3>3. SettingsSaved'
      BY <1>0, <2>1, <3>1, OnlyOne, SettingsStay
    <3>4. CoordSaved'
      BY <2>1, <3>1, <3>2, OnlyOne, CoordStays
    <3> QED
      BY <3>3, <3>4
  <2> QED
    BY <2>2, <2>3
<1>9. CASE SetHome
  <2>1. PICK i \in {NSystems, NSystems + 1}, c \in Coords :
               Write(<<Record(Coord(i), c)>>, "main")
    BY <1>9 DEF SetHome
  <2>2. job' = <<Record(Coord(i), c)>>
    BY <1>0, <2>1, GoalAfter
  <2>3. Line /\ UNCHANGED ram /\ pc = "main"
    BY <1>9 DEF SetHome, Line
  <2>4. Coord(i) # Coord(select) /\ Coord(i) # Global
    BY <2>3, SelectedHeld, Distinct
  <2> QED
    BY <2>2, <2>3, <2>4, OnlyOne, OtherSaves
<1>10. CASE Unlock
  BY <1>10 DEF Unlock, Line, writing, SettingsSaved, CoordSaved, Goal
<1>11. CASE Reset
  <2>1. Line /\ UNCHANGED ram /\ job' = <<>>
    BY <1>0, <1>11, GoalAfter DEF Reset, Line
  <2> QED
    BY <2>1, OtherSaves
<1> QED
  BY <1>1, <1>2, <1>3, <1>4, <1>5, <1>6, <1>7, <1>8, <1>9, <1>10, <1>11 DEF Command

LEMMA PowerLossSaves == PowerLoss => SettingsSaved' /\ CoordSaved'
BY DEF PowerLoss, SettingsSaved, CoordSaved, Goal, Places3

LEMMA SavedInit == Init => SettingsSaved /\ CoordSaved
BY DEF Init, SettingsSaved, CoordSaved, Goal, Places3

LEMMA SavedInductive ==
    ASSUME StartupsInRange
    PROVE  Typed /\ Jobs /\ SettingsSaved /\ CoordSaved /\ [Next]_vars
             => SettingsSaved' /\ CoordSaved'
<1>1. SettingsSaved /\ CoordSaved /\ UNCHANGED vars => SettingsSaved' /\ CoordSaved'
  BY DEF SettingsSaved, CoordSaved, Goal, vars, writing, ram
<1> QED
  BY <1>1, BootSaves, CommandSaves, ByteSaves, PowerLossSaves DEF Next

LEMMA SavedMeans == Typed /\ Jobs /\ SettingsSaved /\ CoordSaved => RamIsSaved
<1> SUFFICES ASSUME Typed, Jobs, SettingsSaved, CoordSaved, pc = "main"
             PROVE  /\ At(0) = Version /\ Valid(Global) /\ Decoded(Data(Global)) = settings
                    /\ Valid(Coord(select)) /\ Data(Coord(select)) = coord
  BY DEF RamIsSaved
<1>1. job = <<>> /\ Goal = "main"
  BY DEF Jobs, Goal
<1>2. eeprom[0] = Version
  BY <1>1, WillIdle DEF SettingsSaved, Places3
<1>3. PICK d \in [1..GlobalSize -> Bytes] : Holds(eeprom, Global, d) /\ Decoded(d) = settings
  BY <1>1, WillIdle DEF SettingsSaved, Places3
<1>4. Valid(Global) /\ Data(Global) = d
  BY <1>3, InRecords, HoldsIs DEF Typed
<1>5. At(0) = Version
  BY <1>2, Layout DEF At
<1> QED
  BY <1>3, <1>4, <1>5, SelectedHeld

\* With an index of $Nn= that there is: when the main program waits for a line,
\* the settings and the coordinates it works with are the ones the next
\* power-up will load (settings_init, gc_init, and every command that stores).
THEOREM RamIsAlwaysSaved ==
    ASSUME StartupsInRange
    PROVE  Spec => []RamIsSaved
<1>1. Spec => [](Typed /\ Kept /\ Jobs /\ SettingsSaved /\ CoordSaved)
  BY InitTyped, TypedInductive, KeptInit, KeptInductive, SavedInit, SavedInductive, PTL DEF Spec
<1> QED
  BY <1>1, SavedMeans, PTL

-----------------------------------------------------------------------------
(* Soft limits need homing: in RAM, in the byte of the flags whatever else  *)
(* of the record is torn or erased, and in every record to be written.      *)

Sound(b) == (b \div 2) % 2 = 1 => b % 2 = 1
ImagesSound == \A e \in Images : Sound(e[GlobalAt + 1])

SoundJob(records) == \A i \in 1..Len(records) :
    records[i].of = Global => records[i].at = 0 \/ Sound(records[i].bytes[2])
AllSound == SoftNeedsHoming /\ Sound(eeprom[GlobalAt + 1]) /\ SoundJob(job)

LEMMA EncodedSound ==
    ASSUME NEW s \in SettingsType, s.soft => s.homing
    PROVE  Sound(Encoded(s)[2])
BY DEF Sound, Encoded, SettingsType

LEMMA DecodedSound ==
    ASSUME NEW d \in [1..GlobalSize -> Bytes], Sound(d[2])
    PROVE  Decoded(d).soft => Decoded(d).homing
BY DEF Decoded, Sound

LEMMA ErasedSound == Sound(Erased)
<1>1. Byte \in Int /\ Byte % 4 = 0
  BY ByteAssumption
<1>2. (Byte - 1) % 2 = 1
  BY <1>1
<1> QED
  BY <1>2 DEF Sound, Erased

LEMMA SoundOther ==
    ASSUME NEW records, \A i \in 1..Len(records) : records[i].of # Global
    PROVE  SoundJob(records)
BY DEF SoundJob

LEMMA SoundGlobal ==
    ASSUME NEW s \in SettingsType, s.soft => s.homing
    PROVE  Sound(Record(Global, Encoded(s)).bytes[2])
<1>1. Encoded(s) \in [1..GlobalSize -> Bytes] /\ GlobalSize \in Nat \ {0} /\ 2 \in 1..GlobalSize
  BY EncodedTyped DEF GlobalSize
<1>2. Checksum(Encoded(s)) \in Bytes
  BY <1>1, ChecksumTyped
<1>3. Append(Encoded(s), Checksum(Encoded(s)))[2] = Encoded(s)[2]
  BY <1>1, <1>2, WithSum
<1>4. Record(Global, Encoded(s)).bytes = Append(Encoded(s), Checksum(Encoded(s)))
  BY DEF Record
<1> QED
  BY <1>3, <1>4, EncodedSound

LEMMA SoundSettings ==
    ASSUME NEW s \in SettingsType, s.soft => s.homing
    PROVE  SoundJob(GlobalRecord(s))
<1>1. Len(GlobalRecord(s)) = 2
  BY GlobalParts, Zenon
<1>2. GlobalRecord(s)[1].at = 0
  BY GlobalParts DEF Plain
<1>3. Sound(GlobalRecord(s)[2].bytes[2])
  BY GlobalParts, SoundGlobal
<1>4. \A i \in 1..2 : i = 1 \/ i = 2
  OBVIOUS
<1> QED
  BY <1>1, <1>2, <1>3, <1>4 DEF SoundJob

LEMMA SoundAll == SoundJob(All)
<1>0. NCoords \in Nat /\ NStartup \in Nat
  BY Layout
<1>1. All[1].at = 0
  BY AllParts DEF Plain
<1>2. Sound(All[2].bytes[2])
  BY AllParts, SoundGlobal, DefaultsAssumption
<1>3. ASSUME NEW m \in 3..Len(All) PROVE All[m].of # Global
  BY AllOthers, <1>3
<1>4. \A i \in 1..Len(All) : i = 1 \/ i = 2 \/ i \in 3..Len(All)
  BY <1>0, AllParts
<1> QED
  BY <1>1, <1>2, <1>3, <1>4 DEF SoundJob

LEMMA ByteSound == Typed /\ Jobs /\ AllSound /\ WriteByte => AllSound'
<1> SUFFICES ASSUME Typed, Jobs, AllSound, WriteByte PROVE AllSound'
  OBVIOUS
<1> DEFINE w == Head(job)
           last == byte = Len(w.bytes)
<1>0. /\ pc = "write" /\ Memory /\ job \in Seq(Writes) /\ job # <<>> /\ Fits(job) /\ InPlace
  BY DEF WriteByte, Typed, Writing, Jobs
<1>1. /\ w \in Writes /\ w.of \in Records /\ w = job[1] /\ byte \in 1..Len(w.bytes)
      /\ w.at + byte - 1 \in 0..Size - 1
      /\ eeprom' = [eeprom EXCEPT ![w.at + byte - 1] = w.bytes[byte]]
      /\ \A r \in Records \ {w.of} : \A a \in Cells(r) : eeprom'[a] = eeprom[a]
  BY <1>0, ByteWritten
<1>2. 1 \in 1..Len(job) /\ Len(job) \in Nat
  BY <1>0
<1>3. job' = IF last THEN Tail(job) ELSE job
  BY DEF WriteByte
<1>4. /\ Len(Tail(job)) = Len(job) - 1
      /\ \A i \in 1..Len(Tail(job)) : Tail(job)[i] = job[i + 1] /\ i + 1 \in 1..Len(job)
  BY <1>0, <1>2
<1>5. settings' = settings
  BY DEF WriteByte, ram
<1> HIDE DEF w, last
<1>6. SoundJob(job')
  BY <1>3, <1>4 DEF AllSound, SoundJob
<1>7. /\ \/ w.at = 0 /\ byte = 1
         \/ w.at = Address(w.of) /\ w.at # 0
      /\ Address(Global) = GlobalAt /\ GlobalAt = 1 /\ Cells(Global) = 1..3
  BY <1>1, Spot, Places DEF GlobalAt, GlobalSize, Cells
<1>8. Sound(eeprom'[GlobalAt + 1])
  <2>1. CASE w.of # Global
    <3>1. GlobalAt + 1 \in Cells(Global) /\ Global \in Records \ {w.of}
      BY <1>7, <2>1, InRecords
    <3>2. eeprom'[GlobalAt + 1] = eeprom[GlobalAt + 1]
      BY <1>1, <3>1
    <3> QED
      BY <3>2 DEF AllSound
  <2>2. CASE w.of = Global /\ w.at + byte - 1 # GlobalAt + 1
    <3>1. eeprom'[GlobalAt + 1] = eeprom[GlobalAt + 1]
      <4>1. GlobalAt + 1 \in 0..Size - 1
        BY InRecords, InMemory, <1>7, Layout
      <4> QED
        BY <1>0, <1>1, <2>2, <4>1 DEF Memory
    <3> QED
      BY <3>1 DEF AllSound
  <2>3. CASE w.of = Global /\ w.at + byte - 1 = GlobalAt + 1
    <3>1. w.at = 1 /\ byte = 2
      BY <1>1, <1>7, <2>3
    <3>2. Sound(w.bytes[2])
      BY <1>1, <1>2, <2>3, <3>1 DEF AllSound, SoundJob
    <3>3. eeprom'[GlobalAt + 1] = w.bytes[2]
      BY <1>0, <1>1, <2>3, <3>1 DEF Memory
    <3> QED
      BY <3>2, <3>3
  <2> QED
    BY <2>1, <2>2, <2>3
<1> QED
  BY <1>5, <1>6, <1>8 DEF AllSound, SoftNeedsHoming

LEMMA BootSound == Typed /\ Jobs /\ AllSound /\ Boot => AllSound'
<1> SUFFICES ASSUME Typed, Jobs, AllSound, Boot PROVE AllSound'
  OBVIOUS
<1>0. /\ Memory /\ Ram /\ Global \in Records
      /\ Sound(eeprom[GlobalAt + 1]) /\ SoftNeedsHoming /\ SoundJob(job)
  BY InRecords DEF Typed, AllSound
<1>1. CASE PowerUp
  BY <1>0, <1>1 DEF PowerUp, AllSound, SoftNeedsHoming, ram
<1>2. CASE LoadSettings
  <2>1. eeprom' = eeprom
    BY <1>2 DEF LoadSettings
  <2>2. CASE At(0) = Version /\ Valid(Global)
    <3>1. job' = job /\ settings' = Decoded(Data(Global))
      BY <1>2, <2>2 DEF LoadSettings, WriteNothing
    <3>2. Data(Global) \in [1..GlobalSize -> Bytes]
      BY <1>0, RecordsNamed, DataTyped, Places
    <3>3. Data(Global)[2] = eeprom[GlobalAt + 1]
      <4>1. Holds(eeprom, Global, Data(Global))
        BY <1>0, <2>2, HoldsIs
      <4>2. 2 \in 1..Length(Global) /\ Address(Global) + 2 - 1 = GlobalAt + 1
        BY Places DEF GlobalAt, GlobalSize
      <4> QED
        BY <4>1, <4>2 DEF Holds
    <3>4. settings'.soft => settings'.homing
      BY <1>0, <3>1, <3>2, <3>3, DecodedSound
    <3> QED
      BY <1>0, <2>1, <3>1, <3>4 DEF AllSound, SoftNeedsHoming
  <2>3. CASE ~(At(0) = Version /\ Valid(Global))
    <3>1. job' = All /\ settings' = Defaults
      BY <1>2, <2>3 DEF LoadSettings, Write
    <3> QED
      BY <1>0, <2>1, <3>1, SoundAll, DefaultsAssumption DEF AllSound, SoftNeedsHoming
  <2> QED
    BY <2>2, <2>3
<1>3. CASE LoadSystem
  <2>1. job' = job \/ job' = <<Record(Coord(0), Zero)>>
    BY <1>3 DEF LoadSystem, Write, WriteNothing
  <2>2. SoundJob(job')
    BY <1>0, <2>1, OnlyOne, Distinct, SoundOther
  <2> QED
    BY <1>0, <1>3, <2>2 DEF LoadSystem, AllSound, SoftNeedsHoming
<1>4. CASE ExecuteStartup
  <2>1. job' = job \/ job' = <<Record(Startup(startup), [Data(Startup(startup)) EXCEPT ![1] = 0])>>
    BY <1>4 DEF ExecuteStartup, Write, WriteNothing, Healed
  <2>2. SoundJob(job')
    BY <1>0, <2>1, OnlyOne, Distinct, SoundOther
  <2> QED
    BY <1>0, <1>4, <2>2 DEF ExecuteStartup, AllSound, SoftNeedsHoming
<1> QED
  BY <1>1, <1>2, <1>3, <1>4 DEF Boot

LEMMA LineSound ==
    ASSUME AllSound, Line, settings' = settings, SoundJob(job')
    PROVE  AllSound'
BY DEF AllSound, Line, SoftNeedsHoming

\* A command that writes at most one record, which is not the settings.
LEMMA OneSound ==
    ASSUME AllSound, Line, settings' = settings, NEW r, r # Global, NEW d, NEW next,
           Write(<<Record(r, d)>>, next) \/ WriteNothing(next)
    PROVE  AllSound'
<1>1. job' = job \/ job' = <<Record(r, d)>>
  BY DEF Write, WriteNothing
<1>2. SoundJob(job')
  BY <1>1, OnlyOne, SoundOther DEF AllSound
<1> QED
  BY <1>2, LineSound

LEMMA CommandSound == Typed /\ AllSound /\ Command => AllSound'
<1> SUFFICES ASSUME Typed, AllSound, Command PROVE AllSound'
  OBVIOUS
<1>0. settings \in SettingsType /\ (settings.soft => settings.homing)
  BY DEF Typed, Ram, AllSound, SoftNeedsHoming
<1>1. CASE StoreSetting
  <2>1. PICK new : Set(new) /\ new \in SettingsType /\ (new.soft => new.homing)
    <3>1. \A v \in Bytes : LET new == [settings EXCEPT !.value = v]
                           IN  new \in SettingsType /\ (new.soft => new.homing)
      BY <1>0 DEF SettingsType
    <3>2. LET new == [settings EXCEPT !.soft = TRUE]
          IN  new \in SettingsType /\ (settings.homing => new.homing)
      BY <1>0 DEF SettingsType
    <3>3. LET new == [settings EXCEPT !.soft = FALSE]
          IN  new \in SettingsType /\ (new.soft => new.homing)
      BY <1>0 DEF SettingsType
    <3>4. \A on \in BOOLEAN : LET new == IF on THEN Homing(TRUE) ELSE Homing(FALSE)
                              IN  new \in SettingsType /\ (new.soft => new.homing)
      BY <1>0 DEF SettingsType, Homing
    <3> QED
      BY <1>1, <3>1, <3>2, <3>3, <3>4 DEF StoreSetting
  <2>2. /\ eeprom' = eeprom /\ settings' = new /\ job' = GlobalRecord(new)
    BY <2>1 DEF Set, Line, Write
  <2> QED
    BY <2>1, <2>2, SoundSettings DEF AllSound, SoftNeedsHoming
<1>2. CASE Restore
  <2>1. PICK records :
          /\ job' = records /\ eeprom' = eeprom
          /\ \/ records = GlobalRecord(Defaults) /\ settings' = Defaults
             \/ records = CoordRecords /\ settings' = settings
             \/ records = All /\ settings' = Defaults
    BY <1>2 DEF Restore, Write, Line
  <2>2. SoundJob(CoordRecords)
    BY CoordOthers, SoundOther
  <2> QED
    BY <2>1, <2>2, SoundAll, SoundSettings, DefaultsAssumption DEF AllSound, SoftNeedsHoming
<1>3. CASE StoreStartup
  <2>1. PICK n \in StartupIndexes, l \in Lines : Write(<<Record(Startup(n), l)>>, "main")
    BY <1>3 DEF StoreStartup
  <2> QED
    BY <1>3, <2>1, Distinct, OneSound DEF StoreStartup, ram
<1>4. CASE StoreBuild
  BY <1>4, Distinct, OneSound DEF StoreBuild, ram
<1>5. ASSUME NEW r \in {Build} \cup {Startup(n) : n \in 0..NStartup - 1}, Show(r)
      PROVE  AllSound'
  BY <1>5, Distinct, OneSound DEF Show, ram, Healed
<1>6. CASE ShowParameters
  BY <1>6, Distinct, OneSound DEF ShowParameters, ram
<1>7. ASSUME NEW i \in 0..NSystems - 1, SelectSystem(i) PROVE AllSound'
  <2>1. Write(<<Record(Coord(i), Zero)>>, "main") \/ WriteNothing("main")
    BY <1>7 DEF SelectSystem
  <2> QED
    BY <1>7, <2>1, Distinct, OneSound DEF SelectSystem
<1>8. ASSUME NEW i \in 0..NSystems - 1, SetSystem(i) PROVE AllSound'
  <2>1. PICK d : Write(<<Record(Coord(i), d)>>, "main")
    BY <1>8 DEF SetSystem
  <2> QED
    BY <1>8, <2>1, Distinct, OneSound DEF SetSystem
<1>9. CASE SetHome
  BY <1>9, Distinct, OneSound DEF SetHome, ram
<1>10. CASE Unlock
  BY <1>10, LineSound DEF Unlock, writing, AllSound
<1>11. CASE Reset
  BY <1>11, LineSound DEF Reset, ram, WriteNothing, AllSound
<1> QED
  BY <1>1, <1>2, <1>3, <1>4, <1>5, <1>6, <1>7, <1>8, <1>9, <1>10, <1>11 DEF Command

LEMMA PowerLossSound == Typed /\ AllSound /\ PowerLoss => AllSound'
<1> SUFFICES ASSUME Typed, AllSound, PowerLoss PROVE AllSound'
  OBVIOUS
<1>1. job' = <<>> /\ settings' = settings
  BY DEF PowerLoss, ram
<1>2. PICK a : eeprom' = eeprom \/ eeprom' = [eeprom EXCEPT ![a] = Erased]
  BY DEF PowerLoss
<1>3. eeprom'[GlobalAt + 1] \in {eeprom[GlobalAt + 1], Erased}
  <2>1. DOMAIN eeprom = 0..Size - 1 /\ GlobalAt + 1 \in 0..Size - 1
    BY Layout DEF Typed, Memory, GlobalAt, GlobalSize
  <2> QED
    BY <1>2, <2>1
<1>4. SoundJob(<<>>)
  BY DEF SoundJob
<1> QED
  BY <1>1, <1>3, <1>4, ErasedSound DEF AllSound, SoftNeedsHoming

LEMMA SoundInit ==
    ASSUME ImagesSound
    PROVE  Init => AllSound
BY DefaultsAssumption DEF Init, AllSound, SoftNeedsHoming, SoundJob, ImagesSound

LEMMA SoundInductive == Typed /\ Jobs /\ AllSound /\ [Next]_vars => AllSound'
<1>1. AllSound /\ UNCHANGED vars => AllSound'
  BY DEF AllSound, SoftNeedsHoming, vars, writing, ram
<1> QED
  BY <1>1, BootSound, CommandSound, ByteSound, PowerLossSound DEF Next

\* With an index of $Nn= that there is, and an EEPROM that is new or was written
\* by this program before: soft limits are on only with homing on, through every
\* sequence of settings, restores and torn records (settings.c:269 and :282).
THEOREM SoftAlwaysNeedsHoming ==
    ASSUME StartupsInRange, ImagesSound
    PROVE  Spec => []SoftNeedsHoming
<1>1. Spec => [](Typed /\ Kept /\ Jobs /\ AllSound)
  BY InitTyped, TypedInductive, KeptInit, KeptInductive, SoundInit, SoundInductive, PTL DEF Spec
<1>2. AllSound => SoftNeedsHoming
  BY DEF AllSound
<1> QED
  BY <1>1, <1>2, PTL

=============================================================================
