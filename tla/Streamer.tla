------------------------------ MODULE Streamer ------------------------------
(***************************************************************************)
(* The controller application's stream and what answers it:                *)
(* serialStream.pde, draw() of drawbot_app.pde and the buttons of          *)
(* cp5ux.pde, with the firmware reduced to its receive ring, the line it   *)
(* executes and its answers.                                               *)
(*                                                                         *)
(* SIMPLE_MODE is off.  The application counts the characters of the lines *)
(* it has streamed and that are not answered yet (c_line) against the ring *)
(* of 128; the buttons and the time-out send lines it does not count.      *)
(* A frame is one call of draw().                                          *)
(***************************************************************************)
EXTENDS Integers, Sequences

CONSTANTS Drawing,           \* the lines of gcode: [len, pen, bad]; len 0 is a blank line
          Window, Capacity,  \* the 127 of stream(), RX_BUFFER_SIZE
          CommandLength,     \* characters of a line that is not streamed
          SprayAfter, HomeAfter,   \* the 120 and 1200 frames of draw()
          ReportFreq,        \* frames between two status requests
          Buttons,           \* what the operator presses
          MaxPresses, MaxAnswers   \* bounds: presses; answers not yet read

LineSet == [len : Nat, pen : {"on", "off", "same"}, bad : BOOLEAN]
ASSUME DrawingAssumption ==
    /\ Drawing \in Seq(LineSet) /\ Drawing # <<>>
    /\ \A i \in DOMAIN Drawing : Drawing[i].len <= Window
ASSUME SizesAssumption ==
    /\ Window \in Nat /\ Capacity \in Nat /\ Window <= Capacity
    /\ CommandLength \in 1..Capacity
    /\ SprayAfter \in Nat /\ HomeAfter \in Nat /\ SprayAfter <= HomeAfter
    /\ ReportFreq \in Nat \ {0}
    /\ Buttons \subseteq {"start", "pause", "penOn", "penOff", "home"}
    /\ MaxPresses \in Nat /\ MaxAnswers \in Nat \ {0}

VARIABLES
    app,        \* streaming, line, c_line, timeout, idle, spraying: see AppSet
    paused, r,  \* r counts frames since the last status request
    board,      \* the firmware: see BoardSet
    answers,    \* what the firmware sent and the application has not read
    stray,      \* has an answer to a line it does not hold shortened c_line? (observes)
    presses     \* what is left of the bound

streamVars == <<app, paused, r, board, answers, stray, presses>>

AppSet == [streaming : BOOLEAN, line : -1..Len(Drawing), window : Seq(Nat),
           timeout : 0..HomeAfter, idle : BOOLEAN, spraying : BOOLEAN]

\* A line on its way or in the firmware; drawn: streamed, and not disowned since.
Streamed(l) == [kind |-> "line", drawn |-> TRUE, len |-> l.len, pen |-> l.pen,
                bad |-> l.bad, whole |-> TRUE]
Command(p) == [kind |-> "line", drawn |-> FALSE, len |-> CommandLength, pen |-> p,
               bad |-> FALSE, whole |-> TRUE]
Signal(b) == [kind |-> b]
NoLine == Command("none")
Answer(verdict, drawn) == [kind |-> verdict, drawn |-> drawn]
\* Faulty variant: a machine with its pen down is not called idle.
StatusPenIsBusy(b) == [kind |-> "status", drawn |-> FALSE, spraying |-> b.pen,
                       idle |-> b.door = "shut" /\ ~b.locked /\ ~b.moving /\ ~b.pen]
Status(b) == [kind |-> "status", drawn |-> FALSE, spraying |-> b.pen,
              idle |-> b.door = "shut" /\ ~b.locked /\ ~b.moving]

\* The receive ring (a line that lost its end is not whole), the line being executed, a
\* line begun before it that has lost its end, the stage of the door, the alarm, queued
\* motion, the servo.  The door: "stopping" decelerates, "retracting" switches off and
\* looks at the door, "waiting" can be resumed, "restoring" switches on again.
DoorSet == {"shut", "stopping", "retracting", "waiting", "restoring"}
BoardSet == [ring : Seq([kind : {"line"}, drawn : BOOLEAN, len : Nat, pen : {"on", "off", "same"},
                         bad : BOOLEAN, whole : BOOLEAN]),
             current : [kind : {"line"}, drawn : BOOLEAN, len : Nat,
                        pen : {"on", "off", "same", "none"}, bad : BOOLEAN, whole : {TRUE}],
             partial : BOOLEAN, door : DoorSet, locked : BOOLEAN, moving : BOOLEAN,
             pen : BOOLEAN]

AnswerSet == [kind : {"ok", "error", "welcome"}, drawn : BOOLEAN]
                \cup [kind : {"status"}, drawn : {FALSE}, spraying : BOOLEAN, idle : BOOLEAN]

Counted(window) ==
    LET sum[n \in 0..Len(window)] == IF n = 0 THEN 0 ELSE sum[n - 1] + window[n]
    IN sum[Len(window)]
Characters(lines) == Counted([i \in DOMAIN lines |-> lines[i].len])

-----------------------------------------------------------------------------
(* What arrives at the firmware.  It arrives at once: later, the ring would *)
(* hold less, and an answer given meanwhile is one given before, unread.    *)

\* SERIAL_RX: what does not fit is dropped, the end of the line with it.
ArriveLine(b, l) ==
    LET free == Capacity - Characters(b.ring)
    IN CASE l.len <= free -> [b EXCEPT !.ring = Append(@, l)]
         [] l.len > free /\ free > 0 ->
              [b EXCEPT !.ring = Append(@, [l EXCEPT !.len = free, !.whole = FALSE])]
         [] OTHER -> b

\* The soft reset empties the ring, cuts the line short, and leaves an alarm when
\* something was moving, if only to a stop.
ArriveReset(b) ==
    [b EXCEPT !.ring = <<>>, !.current = NoLine, !.partial = FALSE, !.door = "shut",
              !.locked = @ \/ (b.moving /\ b.door \in {"shut", "stopping"}),
              !.moving = FALSE, !.pen = FALSE]

\* The door: motion is stopped first, a restore is broken off, an alarm has no door.
DoorOpened(b) ==
    CASE b.locked -> b.door
      [] ~b.locked /\ (b.door = "stopping" \/ (b.door = "shut" /\ b.moving)) -> "stopping"
      [] OTHER -> "retracting"

\* A '~' before the machine has stopped, retracted and looked at the door is dropped.
Resumed(b) == IF b.door = "waiting" THEN "restoring" ELSE b.door

Arrive(b, m) ==
    CASE m.kind = "line" -> ArriveLine(b, m)
      [] m.kind = "door" -> [b EXCEPT !.door = DoorOpened(b)]
      [] m.kind = "resume" -> [b EXCEPT !.door = Resumed(b)]
      [] m.kind = "reset" -> ArriveReset(b)

\* Lines streamed before c_line was made new are not the stream's any more.
Disown(s) == [i \in DOMAIN s |-> [s[i] EXCEPT !.drawn = FALSE]]
Disowned(b) == [b EXCEPT !.ring = Disown(@), !.current.drawn = FALSE]

Arrivals(b, messages) ==
    LET after[n \in 0..Len(messages)] ==
            IF n = 0 THEN b ELSE Arrive(after[n - 1], messages[n])
    IN after[Len(messages)]

\* After a step of the application: the messages it sent arrive, and what was there is
\* disowned when c_line was made new.
Sends(messages, heard, renewed) ==
    LET b == Arrivals(board, messages)
    IN /\ board' = IF renewed THEN Disowned(b) ELSE b
       /\ answers' = IF renewed THEN Disown(heard) ELSE heard

-----------------------------------------------------------------------------
(* The application.                                                        *)

Fresh(a) == [a EXCEPT !.line = 0, !.window = <<>>]   \* resetStatus

\* The line stream() comes to, past the blank ones.
Skipped(n) ==
    IF n < 0 THEN n
    ELSE CHOOSE m \in n..Len(Drawing) :
            /\ \A k \in n + 1..m : Drawing[k].len = 0
            /\ m = Len(Drawing) \/ Drawing[m + 1].len # 0

\* Faulty variant: the end of the new line is not counted.
StreamNoEnd(a) ==
    LET n == Skipped(a.line)
        next == Drawing[n + 1]
    IN IF a.streaming /\ n \in 0..Len(Drawing) - 1 /\ Counted(a.window) + next.len - 1 <= Window
       THEN [app |-> [a EXCEPT !.window = Append(@, next.len), !.line = n + 1],
             sent |-> <<Streamed(next)>>]
       ELSE [app |-> a, sent |-> <<>>]
\* stream(): what it makes of the application, and what it sends.
Stream(a) ==
    LET n == Skipped(a.line)
        next == Drawing[n + 1]
    IN CASE ~a.streaming -> [app |-> a, sent |-> <<>>]
         [] a.streaming /\ n >= Len(Drawing) -> [app |-> [a EXCEPT !.line = -1], sent |-> <<>>]
         [] a.streaming /\ n < 0 ->
              [app |-> IF a.window = <<>> THEN [Fresh(a) EXCEPT !.streaming = FALSE] ELSE a,
               sent |-> <<>>]
         [] OTHER ->
              IF Counted(a.window) + next.len <= Window
              THEN [app |-> [a EXCEPT !.window = Append(@, next.len), !.line = n + 1],
                    sent |-> <<Streamed(next)>>]
              ELSE [app |-> [a EXCEPT !.line = n], sent |-> <<>>]

\* "DRAWING FINISHED"
Finishes(a) == a.streaming /\ a.line < 0 /\ a.window = <<>>

\* Faulty variant: whatever comes from the firmware is taken for an answer.
HeardAnything(a, m) ==
    [a EXCEPT !.window = IF @ = <<>> THEN @ ELSE Tail(@), !.timeout = 0]
\* serialRun up to the stream: an ok shortens c_line, an error does not.
Heard(a, m) ==
    CASE m.kind = "ok" ->
           [a EXCEPT !.window = IF @ = <<>> THEN @ ELSE Tail(@), !.timeout = 0]
      [] m.kind = "status" -> [a EXCEPT !.idle = m.idle, !.spraying = m.spraying]
      [] OTHER -> a

\* One draw(): the status request every so often, one message read if there is one, the
\* stream unless that message returned early, the pen lifted and the stream given up in time.
Frame ==
    LET asks == r > ReportFreq
        reads == answers # <<>>
        message == Head(answers)
        heard == IF reads THEN Heard(app, message) ELSE app
        streams == ~reads \/ message.kind = "ok"
        ran == IF streams THEN Stream(heard) ELSE [app |-> heard, sent |-> <<>>]
        finished == streams /\ Finishes(heard)
        lifts == ran.app.idle /\ ran.app.spraying /\ ran.app.timeout > SprayAfter
        waits == ran.app.idle /\ ran.app.streaming
        homes == waits /\ ran.app.timeout + 1 > HomeAfter
    IN /\ r' = IF asks THEN 1 ELSE r + 1
       /\ app' = CASE homes -> [ran.app EXCEPT !.streaming = FALSE, !.line = 0, !.timeout = 0]
                   [] waits /\ ~homes -> [ran.app EXCEPT !.timeout = @ + 1]
                   [] OTHER -> ran.app
       /\ Sends(ran.sent \o (IF lifts THEN <<Command("off")>> ELSE <<>>)
                         \o (IF homes THEN <<Command("same")>> ELSE <<>>),
                (IF reads THEN Tail(answers) ELSE answers)
                    \o (IF asks THEN <<Status(board)>> ELSE <<>>),
                finished)
       /\ stray' = /\ ~finished
                   /\ stray \/ (reads /\ message.kind = "ok" /\ ~message.drawn
                                /\ app.window # <<>>)
    /\ UNCHANGED <<paused, presses>>

Press(button) == button \in Buttons /\ presses > 0 /\ presses' = presses - 1

\* START: the speed is sent, uncounted, and then the first line.
Start ==
    /\ Press("start") /\ ~paused /\ ~app.streaming
    /\ LET ran == Stream([app EXCEPT !.streaming = TRUE])
       IN app' = ran.app /\ Sends(<<Command("same")>> \o ran.sent, answers, FALSE)
    /\ UNCHANGED <<paused, r, stray>>

\* The same button while paused: RESET.  The line being executed may still be answered.
Reset ==
    /\ Press("start") /\ paused
    /\ app' = [Fresh(app) EXCEPT !.streaming = FALSE]
    /\ paused' = FALSE /\ stray' = FALSE
    /\ \E answered \in BOOLEAN :
         /\ answered => board.current # NoLine
         /\ Sends(<<Signal("reset"), Command("same")>>,
                  answers \o (IF answered THEN <<Answer("ok", FALSE)>> ELSE <<>>)
                          \o <<Answer("welcome", FALSE)>>, TRUE)
    /\ UNCHANGED r

Pause ==
    /\ Press("pause") /\ ~paused
    /\ paused' = TRUE
    /\ Sends(<<Signal("door")>>, answers, FALSE)
    /\ UNCHANGED <<app, r, stray>>

Resume ==
    /\ Press("pause") /\ paused
    /\ LET resumed == [app EXCEPT !.streaming = TRUE]
           ran == Stream(resumed)
       IN /\ app' = ran.app
          /\ Sends(<<Signal("resume")>> \o ran.sent, answers, Finishes(resumed))
          /\ stray' = (stray /\ ~Finishes(resumed))
    /\ paused' = FALSE
    /\ UNCHANGED r

\* Every other button sends a line, and only when nothing is streamed.
Manual ==
    /\ ~app.streaming
    /\ \E b \in {"penOn", "penOff", "home"} :
         /\ Press(b)
         /\ Sends(<<Command(CASE b = "penOn" -> "on" [] b = "penOff" -> "off" [] OTHER -> "same")>>,
                  answers, FALSE)
    /\ UNCHANGED <<app, paused, r, stray>>

-----------------------------------------------------------------------------
(* The firmware, as far as the stream sees it.                             *)

\* The main loop reads characters up to the end of a line; those of a line that lost its
\* end run into the next.
Take ==
    /\ board.current = NoLine /\ board.door = "shut" /\ board.ring # <<>>
    /\ LET l == Head(board.ring)
       IN board' = IF l.whole
                   THEN [board EXCEPT !.ring = Tail(@), !.partial = FALSE,
                                      !.current = [l EXCEPT !.bad = @ \/ board.partial]]
                   ELSE [board EXCEPT !.ring = Tail(@), !.partial = TRUE]
    /\ UNCHANGED <<app, paused, r, answers, stray, presses>>

Execute ==
    /\ board.current # NoLine /\ board.door = "shut"
    /\ Len(answers) < MaxAnswers
    /\ LET l == board.current
           refused == board.locked \/ l.bad
       IN /\ answers' = Append(answers, Answer(IF refused THEN "error" ELSE "ok", l.drawn))
          /\ board' = [board EXCEPT !.current = NoLine, !.moving = @ \/ ~refused,
                                    !.pen = IF refused \/ l.pen = "same" THEN @ ELSE l.pen = "on"]
    /\ UNCHANGED <<app, paused, r, stray, presses>>

Rest ==
    /\ board.moving /\ board.door = "shut"
    /\ board' = [board EXCEPT !.moving = FALSE]
    /\ UNCHANGED <<app, paused, r, answers, stray, presses>>

\* The end of the deceleration, of the retract and of the restore.
NextStage == [stopping |-> "retracting", retracting |-> "waiting", restoring |-> "shut"]
Suspend ==
    /\ board.door \in DOMAIN NextStage
    /\ board' = [board EXCEPT !.door = NextStage[@]]
    /\ UNCHANGED <<app, paused, r, answers, stray, presses>>

StreamInit ==
    /\ app = [streaming |-> FALSE, line |-> 0, window |-> <<>>, timeout |-> 0,
              idle |-> FALSE, spraying |-> FALSE]
    /\ paused = FALSE /\ r = 0
    /\ board = [ring |-> <<>>, current |-> NoLine, partial |-> FALSE, door |-> "shut",
                locked |-> FALSE, moving |-> FALSE, pen |-> FALSE]
    /\ answers = <<>> /\ stray = FALSE /\ presses = MaxPresses

Operator == Start \/ Reset \/ Pause \/ Resume \/ Manual
Firmware == Take \/ Execute \/ Rest \/ Suspend
StreamNext == Frame \/ Operator \/ Firmware

StreamSpec == StreamInit /\ [][StreamNext]_streamVars

\* draw() is called again and again (every frame moves r); the main loop and its suspend
\* loop run and motion ends.
StreamFairness == /\ []<><<TRUE>>_r
                  /\ WF_streamVars(Take) /\ WF_streamVars(Execute)
                  /\ WF_streamVars(Rest) /\ WF_streamVars(Suspend)
StreamFairSpec == StreamSpec /\ StreamFairness

-----------------------------------------------------------------------------
(* Properties.                                                             *)

\* How many of these lines or answers are the stream's.
Drawn(s) == Counted([i \in DOMAIN s |-> IF s[i].drawn THEN 1 ELSE 0])

\* The application, the firmware and the answers are values the code produces; c_line never
\* counts more than the window, nor the ring more than it holds.
StreamTypeOK ==
    /\ app \in AppSet /\ paused \in BOOLEAN /\ r \in 0..ReportFreq + 1
    /\ board \in BoardSet /\ answers \in Seq(AnswerSet)
    /\ Counted(app.window) <= Window /\ Characters(board.ring) <= Capacity
    /\ stray \in BOOLEAN /\ presses \in 0..MaxPresses

OnlyDrawn == \A i \in DOMAIN board.ring : board.ring[i].drawn
AllWhole == \A i \in DOMAIN board.ring : board.ring[i].whole

\* As long as nothing but streamed lines is in the ring, and no answer to another line has
\* shortened c_line, a line that is streamed arrives, and no line loses its end at the ring,
\* whatever errors, pauses, resets and time-outs went before.
StreamsOne == app.line >= 0 /\ app'.line > Skipped(app.line)
StreamFits ==
    [][~stray /\ OnlyDrawn /\ AllWhole /\ ~stray' /\ OnlyDrawn' =>
         /\ AllWhole'
         /\ StreamsOne => Len(board'.ring) = Len(board.ring) + 1]_streamVars

\* Under the same condition every streamed line that is not answered is in c_line; so the
\* drawing is not reported finished before the firmware has answered all of it.
WindowCovers ==
    ~stray => Drawn(board.ring) + Drawn(<<board.current>>) + Drawn(answers) <= Len(app.window)

\* The one way to stay behind the door: the controller resumed while the machine was
\* still stopping or retracting, its '~' was dropped, and nobody sends another.
LeftBehindDoor == board.door = "waiting" /\ ~paused

\* A stream comes to an end - finished, or given up for home - although errors are never
\* counted as answers; unless the operator leaves it paused, the machine is in an alarm, or
\* it was resumed too early: draw() gives up only what reports idle.
StreamEnds == app.streaming ~> ~app.streaming \/ paused \/ board.locked \/ LeftBehindDoor

\* Resuming goes on with what was paused.  The code does otherwise: once every line is
\* answered the stream is over, though the machine still draws what it has queued, and a
\* pause and resume then stream the drawing again from its first line.
ResumeGoesOn == [][paused /\ ~paused' /\ app'.streaming => app.streaming]_streamVars
=============================================================================
