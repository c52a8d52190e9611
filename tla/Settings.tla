------------------------------ MODULE Settings ------------------------------
(***************************************************************************)
(* Settings and EEPROM: grbl/settings.c, the checksummed records of        *)
(* eeprom.c, and the commands of system.c, report.c and gcode.c that read  *)
(* and write them.                                                         *)
(*                                                                         *)
(* The EEPROM is a string of bytes at fixed addresses, written one byte at *)
(* a time; the power may fail before and within any of them.  A byte has   *)
(* Byte values instead of 256, records a few bytes instead of 12 to 80,    *)
(* and the settings are two flags and one number.  All addresses, sizes    *)
(* and the checksum are computed as the code computes them.                *)
(***************************************************************************)
EXTENDS Integers, Sequences, SequencesExt

CONSTANTS Byte,           \* number of values of a byte
          Size,           \* size of the EEPROM, at which addresses wrap
          ParametersAt,   \* EEPROM_ADDR_PARAMETERS
          StartupAt,      \* EEPROM_ADDR_STARTUP_BLOCK
          BuildAt,        \* EEPROM_ADDR_BUILD_INFO
          CoordSize,      \* sizeof(float)*N_AXIS
          LineSize,       \* LINE_BUFFER_SIZE
          NSystems,       \* N_COORDINATE_SYSTEM
          NStartup,       \* N_STARTUP_LINE
          Version,        \* SETTINGS_VERSION
          Defaults,       \* the default settings, DEFAULT_...
          Images,         \* what the EEPROM may hold when first powered up
          Coords, Lines,  \* coordinates and texts the operator may store
          StartupIndexes, \* the n of $Nn= the operator may use
          NoData,         \* a record whose content is not vouched for
          MaxCommands, MaxLosses  \* bounds on commands and power failures

GlobalSize == 2
GlobalAt == 1
Bytes == 0..Byte - 1
Erased == Byte - 1
SettingsType == [homing : BOOLEAN, soft : BOOLEAN, value : Bytes]
NCoords == NSystems + 2                                   \* and G28, G30
Zero == [i \in 1..CoordSize |-> 0]

\* The two flags fit into a byte, and an erased byte has both set.
ASSUME ByteAssumption == Byte \in Nat \ {0} /\ Byte % 4 = 0 /\ Version \in Bytes
ASSUME LayoutAssumption ==
    /\ {ParametersAt, StartupAt, BuildAt, Size, CoordSize, LineSize, NSystems, NStartup}
         \subseteq Nat \ {0}
    /\ GlobalAt + GlobalSize + 1 <= ParametersAt
    /\ ParametersAt + NCoords * (CoordSize + 1) <= StartupAt
    /\ StartupAt + NStartup * (LineSize + 1) <= BuildAt
    /\ BuildAt + LineSize + 1 <= Size
ASSUME DefaultsAssumption == Defaults \in SettingsType /\ (Defaults.soft => Defaults.homing)
ASSUME ImagesAssumption == Images # {} /\ Images \subseteq [0..Size - 1 -> Bytes]
ASSUME InputsAssumption ==
    /\ Coords \subseteq [1..CoordSize -> Bytes] /\ Lines \subseteq [1..LineSize -> Bytes]
    /\ StartupIndexes \subseteq Nat
ASSUME BoundsAssumption == MaxCommands \in Nat /\ MaxLosses \in Nat

VARIABLES
    eeprom,      \* its bytes
    job, byte,   \* the records being written, and the next byte of the first
    pc, then,    \* the place of the main program, and the one after the job
    settings,    \* the global settings in RAM
    select,      \* gc_state.modal.coord_select
    coord,       \* gc_state.coord_system
    state,       \* sys.state: "idle" or "alarm"
    startup,     \* the next startup line to execute
    stored,      \* what has been stored in each record (observes)
    had,         \* the settings there have been (observes)
    commands, losses   \* what is left of the bounds

writing == <<job, byte, pc, then>>
ram == <<settings, had, select, coord, state, startup>>
vars == <<eeprom, writing, ram, stored, commands, losses>>

-----------------------------------------------------------------------------
(* Records.                                                                *)

Global == <<"global", 0>>
Coord(i) == <<"coord", i>>
Startup(n) == <<"startup", n>>
Build == <<"build", 0>>
Records == {Global, Build} \cup {Coord(i) : i \in 0..NCoords - 1}
                           \cup {Startup(n) : n \in 0..NStartup - 1}

AddressTooLow(r) ==                                     \* faulty variant
    CASE r[1] = "global" -> GlobalAt
      [] r[1] = "coord" -> ParametersAt + r[2] * CoordSize
      [] r[1] = "startup" -> StartupAt + r[2] * (LineSize + 1)
      [] r[1] = "build" -> BuildAt
Address(r) ==
    CASE r[1] = "global" -> GlobalAt
      [] r[1] = "coord" -> ParametersAt + r[2] * (CoordSize + 1)
      [] r[1] = "startup" -> StartupAt + r[2] * (LineSize + 1)
      [] r[1] = "build" -> BuildAt

Length(r) == CASE r[1] = "global" -> GlobalSize
               [] r[1] = "coord" -> CoordSize
               [] OTHER -> LineSize

\* (checksum << 1) || (checksum >> 7) is 1 unless the checksum is 0.
Added(sum, d) == ((IF sum = 0 THEN 0 ELSE 1) + d) % Byte
Checksum(data) == Added(FoldLeft(Added, 0, Front(data)), Last(data))

At(a) == eeprom[a % Size]
Data(r) == [i \in 1..Length(r) |-> At(Address(r) + i - 1)]
Valid(r) == Checksum(Data(r)) = At(Address(r) + Length(r))

Encoded(s) == <<s.value, (IF s.homing THEN 1 ELSE 0) + (IF s.soft THEN 2 ELSE 0)>>
Decoded(d) == [value |-> d[1], homing |-> d[2] % 2 = 1, soft |-> (d[2] \div 2) % 2 = 1]

\* memcpy_to_eeprom_with_checksum
Record(r, data) == [of |-> r, at |-> Address(r), bytes |-> Append(data, Checksum(data)),
                    data |-> data]
\* eeprom_put_char, without a checksum
Plain(r, at, bytes) == [of |-> r, at |-> at, bytes |-> bytes, data |-> NoData]

-----------------------------------------------------------------------------
(* Writing.                                                                *)

\* The records are written from now on, then the program goes on at next.
Write(records, next) ==
    /\ job' = records /\ byte' = 1
    /\ pc' = "write" /\ then' = next
    /\ stored' = [r \in Records |->
                    IF \E i \in DOMAIN records : records[i].of = r THEN NoData ELSE stored[r]]

WriteNothing(next) == pc' = next /\ UNCHANGED <<job, byte, then, stored>>

\* eeprom_put_char
WriteByte ==
    /\ pc = "write"
    /\ LET record == Head(job)
           last == byte = Len(record.bytes)
       IN  /\ eeprom' = [eeprom EXCEPT ![(record.at + byte - 1) % Size] = record.bytes[byte]]
           /\ byte' = IF last THEN 1 ELSE byte + 1
           /\ job' = IF last THEN Tail(job) ELSE job
           /\ stored' = IF last /\ record.of \in Records
                          THEN [stored EXCEPT ![record.of] = record.data] ELSE stored
           /\ IF last /\ Len(job) = 1 THEN pc' = then ELSE UNCHANGED pc
    /\ UNCHANGED <<then, ram, commands, losses>>

\* A byte is erased first if one of its bits has to be set.
Erases(old, new) == \E k \in 0..Byte - 1 :
    2 ^ k < Byte /\ (new \div 2 ^ k) % 2 = 1 /\ (old \div 2 ^ k) % 2 = 0

PowerLoss ==
    /\ pc # "off" /\ losses > 0
    /\ pc' = "off" /\ job' = <<>> /\ byte' = 1
    /\ \/ UNCHANGED eeprom
       \/ /\ pc = "write"
          /\ LET at == Head(job).at + byte - 1
             IN  /\ Erases(At(at), Head(job).bytes[byte])
                 /\ eeprom' = [eeprom EXCEPT ![at % Size] = Erased]
    /\ losses' = losses - 1
    /\ UNCHANGED <<then, ram, stored, commands>>

-----------------------------------------------------------------------------
(* settings_restore.                                                       *)

GlobalRecord(s) == <<Plain(Global, 0, <<Version>>), Record(Global, Encoded(s))>>
CoordRecords == [i \in 1..NCoords |-> Record(Coord(i - 1), Zero)]
\* Two bytes, the second called the checksum: the record remains invalid.
Emptied(r) == Plain(r, Address(r), <<0, 0>>)
Wiped == [n \in 1..NStartup |-> Emptied(Startup(n - 1))] \o <<Emptied(Build)>>
All == GlobalRecord(Defaults) \o CoordRecords \o Wiped

-----------------------------------------------------------------------------
(* Power-up and reset.                                                     *)

PowerUp ==
    /\ pc = "off"
    /\ pc' = "settings"
    /\ UNCHANGED <<eeprom, job, byte, then, ram, stored, commands, losses>>

\* settings_init, and the lock of main().
LoadSettings ==
    /\ pc = "settings"
    /\ IF At(0) = Version /\ Valid(Global)
         THEN settings' = Decoded(Data(Global)) /\ WriteNothing("parser")
         ELSE settings' = Defaults /\ Write(All, "parser")
    /\ state' = IF settings'.homing THEN "alarm" ELSE "idle"
    /\ UNCHANGED <<eeprom, had, select, coord, startup, commands, losses>>

\* gc_init
LoadSystem ==
    /\ pc = "parser"
    /\ select' = 0 /\ startup' = 0
    /\ IF Valid(Coord(0))
         THEN coord' = Data(Coord(0)) /\ WriteNothing("startup")
         ELSE coord' = Zero /\ Write(<<Record(Coord(0), Zero)>>, "startup")
    /\ UNCHANGED <<eeprom, settings, had, state, commands, losses>>

\* What settings_read_startup_line and its siblings write over a bad record.
Healed(r) == <<Record(r, [Data(r) EXCEPT ![1] = 0])>>

ExecuteStartupTooMany ==                                \* faulty variant
    /\ pc = "startup"
    /\ IF state = "alarm" \/ startup > NStartup
         THEN WriteNothing("main") /\ UNCHANGED startup
         ELSE /\ startup' = startup + 1
              /\ IF Valid(Startup(startup)) THEN WriteNothing("startup")
                                            ELSE Write(Healed(Startup(startup)), "startup")
    /\ UNCHANGED <<eeprom, settings, had, select, coord, state, commands, losses>>
\* system_execute_startup, not in an alarm; what the lines do is Gcode's.
ExecuteStartup ==
    /\ pc = "startup"
    /\ IF state = "alarm" \/ startup = NStartup
         THEN WriteNothing("main") /\ UNCHANGED startup
         ELSE /\ startup' = startup + 1
              /\ IF Valid(Startup(startup)) THEN WriteNothing("startup")
                                            ELSE Write(Healed(Startup(startup)), "startup")
    /\ UNCHANGED <<eeprom, settings, had, select, coord, state, commands, losses>>

-----------------------------------------------------------------------------
(* Commands, each a line of the main loop.                                 *)

Line == /\ pc = "main" /\ commands > 0
        /\ commands' = commands - 1
        /\ UNCHANGED <<eeprom, losses>>

HomingOnly(on) == [settings EXCEPT !.homing = on]       \* faulty variant
Homing(on) == IF on THEN [settings EXCEPT !.homing = TRUE]
                    ELSE [settings EXCEPT !.homing = FALSE, !.soft = FALSE]

\* $20=, $22= and the settings without a condition; $20=1 asks for homing.
Set(new) ==
    /\ Line
    /\ settings' = new /\ had' = had \cup {new}
    /\ Write(GlobalRecord(new), "main")
    /\ UNCHANGED <<select, coord, state, startup>>
StoreSetting ==
    \/ \E v \in Bytes : Set([settings EXCEPT !.value = v])
    \/ settings.homing /\ Set([settings EXCEPT !.soft = TRUE])
    \/ Set([settings EXCEPT !.soft = FALSE])
    \/ \E on \in BOOLEAN : Set(IF on THEN Homing(TRUE) ELSE Homing(FALSE))

\* $RST=$, $RST=# and $RST=*, and the reset behind them.
RestoreUnreset ==                                       \* faulty variant
    /\ Line
    /\ \/ settings' = Defaults /\ Write(GlobalRecord(Defaults), "main")
       \/ UNCHANGED settings /\ Write(CoordRecords, "main")
       \/ settings' = Defaults /\ Write(All, "main")
    /\ UNCHANGED <<had, select, coord, state, startup>>
Restore ==
    /\ Line
    /\ \/ settings' = Defaults /\ Write(GlobalRecord(Defaults), "parser")
       \/ UNCHANGED settings /\ Write(CoordRecords, "parser")
       \/ settings' = Defaults /\ Write(All, "parser")
    /\ UNCHANGED <<had, select, coord, state, startup>>

\* $Nn=, after its text has been executed; n is not compared with NStartup.
StoreStartup ==
    /\ Line /\ state = "idle"
    /\ \E n \in StartupIndexes, l \in Lines : Write(<<Record(Startup(n), l)>>, "main")
    /\ UNCHANGED ram

StoreBuild ==
    /\ Line
    /\ \E l \in Lines : Write(<<Record(Build, l)>>, "main")
    /\ UNCHANGED ram

\* $N, $I: a bad record is replaced by an empty text.
Show(r) ==
    /\ Line /\ ~Valid(r)
    /\ Write(Healed(r), "main")
    /\ UNCHANGED ram

\* $#: the first bad record is replaced by zeros, and the report ends.
ShowParameters ==
    /\ Line
    /\ \E i \in 0..NCoords - 1 :
          /\ ~Valid(Coord(i)) /\ \A j \in 0..i - 1 : Valid(Coord(j))
          /\ Write(<<Record(Coord(i), Zero)>>, "main")
    /\ UNCHANGED ram

\* G54..G59, M2 and M30 read a system; a bad record ends the line.
SelectSystem(i) ==
    /\ Line /\ state = "idle"
    /\ IF Valid(Coord(i))
         THEN select' = i /\ coord' = Data(Coord(i)) /\ WriteNothing("main")
         ELSE UNCHANGED <<select, coord>> /\ Write(<<Record(Coord(i), Zero)>>, "main")
    /\ UNCHANGED <<settings, had, state, startup>>

\* G10: reads the record, writes it, and keeps the active system up to date.
SetSystem(i) ==
    /\ Line /\ state = "idle"
    /\ IF Valid(Coord(i))
         THEN \E c \in Coords :
                 /\ Write(<<Record(Coord(i), c)>>, "main")
                 /\ coord' = IF i = select THEN c ELSE coord
         ELSE Write(<<Record(Coord(i), Zero)>>, "main") /\ UNCHANGED coord
    /\ UNCHANGED <<settings, had, select, state, startup>>

\* G28.1, G30.1
SetHome ==
    /\ Line /\ state = "idle"
    /\ \E i \in {NSystems, NSystems + 1}, c \in Coords :
          Write(<<Record(Coord(i), c)>>, "main")
    /\ UNCHANGED ram

\* $X
Unlock ==
    /\ Line /\ state = "alarm"
    /\ state' = "idle"
    /\ UNCHANGED <<writing, settings, had, select, coord, startup, stored>>

\* mc_reset, once the main loop sees it.
Reset ==
    /\ Line
    /\ WriteNothing("parser")
    /\ UNCHANGED ram

Init ==
    /\ eeprom \in Images
    /\ job = <<>> /\ byte = 1 /\ pc = "off" /\ then = "off"
    /\ settings = Defaults /\ select = 0 /\ coord = Zero
    /\ state = "idle" /\ startup = 0 /\ had = {Defaults}
    /\ stored = [r \in Records |-> NoData]
    /\ commands = MaxCommands /\ losses = MaxLosses

Boot == PowerUp \/ LoadSettings \/ LoadSystem \/ ExecuteStartup
Command == \/ StoreSetting \/ Restore \/ StoreStartup \/ StoreBuild
           \/ \E r \in {Build} \cup {Startup(n) : n \in 0..NStartup - 1} : Show(r)
           \/ ShowParameters
           \/ \E i \in 0..NSystems - 1 : SelectSystem(i) \/ SetSystem(i)
           \/ SetHome \/ Unlock \/ Reset

Next == WriteByte \/ Boot \/ Command \/ PowerLoss

Spec == Init /\ [][Next]_vars

-----------------------------------------------------------------------------
(* Properties.                                                             *)

TypeOK ==
    /\ eeprom \in [0..Size - 1 -> Bytes]
    /\ pc \in {"off", "settings", "parser", "startup", "main", "write"}
    /\ pc = "write" => job # <<>> /\ byte \in 1..Len(Head(job).bytes)
    /\ then \in {"off", "parser", "startup", "main"}
    /\ settings \in SettingsType /\ had \subseteq SettingsType
    /\ select \in 0..NSystems - 1 /\ coord \in [1..CoordSize -> Bytes]
    /\ state \in {"idle", "alarm"} /\ startup \in 0..NStartup
    /\ commands \in 0..MaxCommands /\ losses \in 0..MaxLosses

\* Whatever was stored in a record is still there, with its checksum, however
\* many other records were written, restored or torn by a power failure since
\* (settings.h lays the records out; eeprom.c writes one byte behind each).
RecordsKept ==
    \A r \in Records : stored[r] # NoData => Data(r) = stored[r] /\ Valid(r)

\* When the main program waits for a line, the settings and the coordinates it
\* works with are the ones the next power-up will load: no path through
\* restoring, healing, resets or torn records leaves the two apart.
RamIsSaved ==
    pc = "main" => /\ At(0) = Version /\ Valid(Global) /\ Decoded(Data(Global)) = settings
                   /\ Valid(Coord(select)) /\ Data(Coord(select)) = coord

\* Soft limits are on only with homing on, through every sequence of settings,
\* restores and torn records ($20 asks for homing, $22=0 switches both off).
SoftNeedsHoming == settings.soft => settings.homing

\* The settings taken from the EEPROM are ones there have been: a torn record
\* is noticed.
SettingsWhole == pc = "main" => settings \in had
=============================================================================
