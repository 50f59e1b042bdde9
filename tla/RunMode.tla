------------------------------ MODULE RunMode ------------------------------
(***************************************************************************)
(* How semonitor.py decides what to do: the validation of the command line *)
(* (the last part of se.env.getArgs), the data source it opens and the     *)
(* loop it enters (the main program).  One action per block of the code,   *)
(* in its order; parser.error ends the program.                            *)
(***************************************************************************)
EXTENDS Integers

CONSTANT MaxSlaves             \* bound on the length of the -s list

ASSUME MaxSlavesAssumption == MaxSlaves \in Nat

\* What the data source argument may be: nothing or "stdin", "-", the path of
\* a serial port, the word "network", or another file.
Sources == {"stdin", "-", "port", "network", "file"}

Args == [type : {"none", "2", "4", "n"}, datasource : Sources,
         master : BOOLEAN, commands : BOOLEAN, slaves : 0 .. MaxSlaves]

VARIABLES
  args,           \* the parsed options; datasource is rewritten on the way
  stage,          \* the block that runs next
  serialDevice,
  networkDevice,
  passiveMode,
  opened,         \* the kind of data source the main program has opened
  role            \* the loop it has entered

modeVars == <<args, stage, serialDevice, networkDevice, passiveMode, opened, role>>

ModeTypeOK ==
  /\ args \in Args
  /\ stage \in {"source", "network", "serial", "master", "commands", "open",
                "dispatch", "running", "refused"}
  /\ serialDevice \in BOOLEAN
  /\ networkDevice \in BOOLEAN
  /\ passiveMode \in BOOLEAN
  /\ opened \in {"none", "socket", "serial", "stdin", "file"}
  /\ role \in {"none", "readData", "doCommands", "threads"}

ModeInit ==
  /\ args \in Args
  /\ stage = "source"
  /\ serialDevice = FALSE
  /\ networkDevice = FALSE
  /\ passiveMode = TRUE
  /\ opened = "none"
  /\ role = "none"

-----------------------------------------------------------------------------
(* getArgs *)

\* parser.error
Refuse == /\ stage' = "refused"
          /\ UNCHANGED <<args, serialDevice, networkDevice, passiveMode, opened,
                         role>>

\* data source validation
ValidateSource ==
  /\ stage = "source"
  /\ stage' = "network"
  /\ args' = IF args.datasource = "-" THEN [args EXCEPT !.datasource = "stdin"]
                                      ELSE args
  /\ serialDevice' = (args.datasource = "port")
  /\ UNCHANGED <<networkDevice, passiveMode, opened, role>>

\* Mutant of ValidateNetwork: the name of the data source is left as it is.
ValidateNetworkKeepsName ==
  /\ stage = "network"
  /\ \/ /\ args.type = "n" /\ args.datasource # "stdin"
        /\ Refuse
     \/ /\ args.type # "n" \/ args.datasource = "stdin"
        /\ networkDevice' = (args.type = "n")
        /\ passiveMode' = (args.type # "n")
        /\ stage' = "serial"
        /\ UNCHANGED <<args, serialDevice, opened, role>>

\* network interface validation
ValidateNetwork ==
  /\ stage = "network"
  /\ \/ /\ args.type = "n" /\ args.datasource # "stdin"
        /\ Refuse
     \/ /\ args.type = "n" /\ args.datasource = "stdin"
        /\ args' = [args EXCEPT !.datasource = "network"]
        /\ networkDevice' = TRUE
        /\ passiveMode' = FALSE
        /\ stage' = "serial"
        /\ UNCHANGED <<serialDevice, opened, role>>
     \/ /\ args.type # "n"
        /\ stage' = "serial"
        /\ UNCHANGED <<args, serialDevice, networkDevice, passiveMode, opened,
                       role>>

\* serial device validation
ValidateSerial ==
  /\ stage = "serial"
  /\ IF serialDevice = (args.type \in {"2", "4"})
     THEN /\ passiveMode' = (passiveMode /\ args.type # "2")
          /\ stage' = "master"
          /\ UNCHANGED <<args, serialDevice, networkDevice, opened, role>>
     ELSE Refuse

\* master mode validation; without -m the mode becomes passive, whatever the
\* blocks before have decided
ValidateMaster ==
  /\ stage = "master"
  /\ IF args.master /\ (args.type # "4" \/ args.slaves < 1)
     THEN Refuse
     ELSE /\ passiveMode' = ~args.master
          /\ stage' = "commands"
          /\ UNCHANGED <<args, serialDevice, networkDevice, opened, role>>

\* command mode validation
ValidateCommands ==
  /\ stage = "commands"
  /\ IF args.commands /\ args.slaves # 1
     THEN Refuse
     ELSE /\ passiveMode' = (passiveMode /\ ~args.commands)
          /\ stage' = "open"
          /\ UNCHANGED <<args, serialDevice, networkDevice, opened, role>>

-----------------------------------------------------------------------------
(* the main program *)

\* openDataSocket, openSerial or openInFile, chosen by the NAME of the source
OpenSource ==
  /\ stage = "open"
  /\ opened' = IF args.datasource = "network" THEN "socket"
               ELSE IF serialDevice THEN "serial"
               ELSE IF args.datasource = "stdin" THEN "stdin" ELSE "file"
  /\ stage' = "dispatch"
  /\ UNCHANGED <<args, serialDevice, networkDevice, passiveMode, role>>

\* read until the end, perform the commands, or start the threads
Dispatch ==
  /\ stage = "dispatch"
  /\ role' = IF passiveMode THEN "readData"
             ELSE IF args.commands THEN "doCommands" ELSE "threads"
  /\ stage' = "running"
  /\ UNCHANGED <<args, serialDevice, networkDevice, passiveMode, opened>>

Validate == \/ ValidateSource \/ ValidateNetwork \/ ValidateSerial
            \/ ValidateMaster \/ ValidateCommands

-----------------------------------------------------------------------------
Interactive == {"socket", "serial"}    \* the sources that can be written to

\* Whatever the combination of options, an accepted -m runs on a serial port of
\* type 4 with a slave to poll (README.md:283-284), and its threads share it.
MasterModeSound ==
  (stage = "running" /\ args.master) =>
    /\ opened = "serial" /\ args.type = "4" /\ args.slaves >= 1
    /\ args.commands \/ role = "threads"

\* readData answers messages only when there is a device to answer on: the
\* decision is taken from the mode (semonitor.py:93), the device from the name
\* (semonitor.py:235-240).
RepliesHaveDevice ==
  (role \in {"readData", "threads"} /\ (networkDevice \/ args.master))
    => opened \in Interactive

=============================================================================
