----------------------------- MODULE UnitMessage -----------------------------
(***************************************************************************)
(* The messages of the control socket.  A message is a text of entries     *)
(* "key=value|" and sections "[Name]|"; here it is the sequence of them, a *)
(* pair per entry and one element per section, and a value is a number or  *)
(* a name.  The word that stands for "no value" is a value of its own,     *)
(* NoneText, that no number is written as.  A separator inside a value is  *)
(* not modelled: the texts hold none.                                      *)
(***************************************************************************)
EXTENDS Integers, Sequences, SequencesExt

NoneText == -99

(* setValueForBuffer: -1 and -2 are written as "None". *)
Format(v) == IF v \in {-1, -2} THEN NoneText ELSE v

Flag(b) == IF b THEN 1 ELSE 0

(* A repeated key: one entry for each value. *)
Repeat(key, values) == [i \in DOMAIN values |-> <<key, values[i]>>]
-----------------------------------------------------------------------------
(* Requests. *)

(* A request is a command, an optional argument (a sequence of one at      *)
(* most) and options.                                                      *)
MarshallRequest(r) ==
  <<<<"Command", r.command>>>> \o Repeat("Arg", r.arg) \o Repeat("Option", r.options)

PutRequest(r, entry) ==
  CASE entry[1] = "Command" -> [r EXCEPT !.command = entry[2]]
    [] entry[1] = "Arg"     -> [r EXCEPT !.arg = <<entry[2]>>]
    [] entry[1] = "Option"  -> [r EXCEPT !.options = Append(@, entry[2])]

(* What the first n entries of the buffer make of a request.               *)
ReadsRequest(buffer) ==
  LET read[n \in 0..Len(buffer)] ==
        IF n = 0 THEN [command |-> "none", arg |-> <<>>, options |-> <<>>]
        ELSE PutRequest(read[n - 1], buffer[n])
  IN read

UnmarshallRequest(buffer) == ReadsRequest(buffer)[Len(buffer)]
-----------------------------------------------------------------------------
(* Responses.  The view of a unit is what unitctl shows of it: of the      *)
(* numbers, -1 stands for "not set" (pid, exit, signal, max), -1 is the    *)
(* final status READY and -2 a maximum that is not used either.            *)

(* The entries that both sorts of response have. *)
Common(v) ==
  << <<"[Unit]">>,
     <<"Name", v.name>>,
     <<"Enabled", Flag(v.enabled)>>,
     <<"Pid", Format(v.pid)>>,
     <<"PState", Format(v.state)>>,
     <<"FinalStatus", Format(v.final)>>,
     <<"RestartNum", Format(v.num)>>,
     <<"Restartable", Flag(v.restart \/ v.max > 0)>>,
     <<"Type", Format(v.type)>>,
     <<"SignalNum", Format(v.signal)>> >>
  \o (IF v.changed THEN << <<"IsChanged", 1>> >> ELSE <<>>)

Past(p) ==
  << <<"[PDataHistory]">>,
     <<"PidH", Format(p.pid)>>,
     <<"ExitCodeH", Format(p.exit)>>,
     <<"PStateH", Format(p.state)>>,
     <<"SignalNumH", Format(p.signal)>>,
     <<"FinalStatusH", Format(p.final)>> >>

(* The entries of a response about one unit; the timer of the unit is a    *)
(* sequence of one <<name, state>> at most.                                *)
Details(v) ==
  (IF v.timer = <<>> THEN <<>>
   ELSE << <<"TimerName", v.timer[1][1]>>, <<"TimerPState", Format(v.timer[1][2])>> >>)
  \o << <<"RestartMax", Format(v.max)>> >>
  \o Repeat("UnitError", v.errors)
  \o << <<"ExitCode", Format(v.exit)>> >>
  \o FlattenSeq([i \in DOMAIN v.history |-> Past(v.history[i])])

(* The sort is "list" (PARSE_SOCK_RESPONSE_UNITLIST) or "unit"             *)
(* (PARSE_SOCK_RESPONSE).                                                  *)
MarshallResponse(out, sort) ==
  Repeat("Message", out.messages) \o Repeat("Error", out.errors)
  \o FlattenSeq([i \in DOMAIN out.units |->
       Common(out.units[i]) \o (IF sort = "unit" THEN Details(out.units[i]) ELSE <<>>)])

(* The unit and the entry of the history that a client starts from: those  *)
(* of unitNew and processDataNew.                                          *)
NewPast == [pid |-> -1, exit |-> -1, state |-> 0, signal |-> -1, final |-> -1]
NewView ==
  [name |-> 0, enabled |-> FALSE, pid |-> -1, state |-> 0, final |-> -1, num |-> 0,
   restart |-> FALSE, max |-> -1, type |-> 0, signal |-> -1, changed |-> FALSE,
   timer |-> <<>>, errors |-> <<>>, exit |-> -1, history |-> <<>>]

(* The fields that hold a number, with their keys. *)
UnitField == [Pid |-> "pid", PState |-> "state", FinalStatus |-> "final", RestartNum |-> "num",
              Type |-> "type", SignalNum |-> "signal", RestartMax |-> "max",
              ExitCode |-> "exit"]
PastField == [PidH |-> "pid", ExitCodeH |-> "exit", PStateH |-> "state",
              SignalNumH |-> "signal", FinalStatusH |-> "final"]

(* Seeded bug: the word None is not looked for in a final status. *)
BugParsed(field, text) ==
  IF text # NoneText THEN text
  ELSE IF field \in {"pid", "exit", "signal", "max"} THEN -1 ELSE 0

(* A number is read back; the word None is looked for in some fields, and  *)
(* is no number, 0 for atoi, in the others.                                *)
Parsed(field, text) ==
  IF text # NoneText THEN text
  ELSE IF field \in {"pid", "exit", "signal", "max", "final"} THEN -1 ELSE 0

InUnit(out, field, value)  == [out EXCEPT !.units[Len(out.units)][field] = value]
InPast(out, field, value) ==
  LET n == Len(out.units) IN
  [out EXCEPT !.units[n].history[Len(out.units[n].history)][field] = value]

Put(out, entry) ==
  LET key == entry[1]
      n == Len(out.units) IN
  IF Len(entry) = 1
  THEN IF key = "[Unit]" THEN [out EXCEPT !.units = Append(@, NewView)]
                         ELSE [out EXCEPT !.units[n].history = Append(@, NewPast)]
  ELSE CASE key = "Message"     -> [out EXCEPT !.messages = Append(@, entry[2])]
         [] key = "Error"       -> [out EXCEPT !.errors = Append(@, entry[2])]
         [] key = "UnitError"   -> [out EXCEPT !.units[n].errors = Append(@, entry[2])]
         [] key = "Name"        -> InUnit(out, "name", entry[2])
         [] key = "Enabled"     -> InUnit(out, "enabled", entry[2] = 1)
         [] key = "Restartable" -> InUnit(out, "restart", entry[2] = 1)
         [] key = "IsChanged"   -> InUnit(out, "changed", TRUE)
         [] key = "TimerName"   -> InUnit(out, "timer", <<<<entry[2], 0>>>>)
         [] key = "TimerPState" -> [out EXCEPT !.units[n].timer[1][2] = Parsed("state", entry[2])]
         [] key \in DOMAIN UnitField ->
              InUnit(out, UnitField[key], Parsed(UnitField[key], entry[2]))
         [] key \in DOMAIN PastField ->
              InPast(out, PastField[key], Parsed(PastField[key], entry[2]))

(* What the first n entries of the buffer make of a response.              *)
Reads(out, buffer) ==
  LET read[n \in 0..Len(buffer)] == IF n = 0 THEN out ELSE Put(read[n - 1], buffer[n])
  IN read

UnmarshallResponse(buffer) ==
  Reads([messages |-> <<>>, errors |-> <<>>, units |-> <<>>], buffer)[Len(buffer)]
=============================================================================
