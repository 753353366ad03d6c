-------------------------------- MODULE Addresses --------------------------------
(***************************************************************************)
(* Who is reached at which port of 127.0.0.1: the ports the simulator gives *)
(* the processes it starts (simulator.c), and the ports that the codes in    *)
(* the receiver list of a temperature sensor stand for                      *)
(* (helper_functions.c:477-517).                                            *)
(***************************************************************************)
EXTENDS Integers, Sequences

NoPort == -1

BasePort == 3000

\* local_port_offset; the kinds that listen to nobody have none.
HasPort(k) == k \in {"overseer", "firealarm", "door", "tempsensor", "elevator"}

PortOffset(k) ==
  CASE k = "overseer"   -> 0
    [] k = "firealarm"  -> 100
    [] k = "door"       -> 300
    [] k = "tempsensor" -> 500
    [] k = "elevator"   -> 600

\* Mutated form: every process of a kind gets the same port.
Port_NoCount(k, n) == IF HasPort(k) THEN BasePort + PortOffset(k) ELSE NoPort

\* The port of the (n+1)th process of a kind; there is one overseer.
Port(k, n) ==
  IF ~HasPort(k) THEN NoPort
  ELSE BasePort + PortOffset(k) + IF k = "overseer" THEN 0 ELSE n

\* Codes: the overseer, the fire alarm unit, sensor n, and any other word.
Overseer  == [names |-> "O", n |-> 0]
FireAlarm == [names |-> "F", n |-> 0]
Sensor(n) == [names |-> "S", n |-> n]
Unknown   == [names |-> "?", n |-> 0]

GetPortFromCode(code) ==
  CASE code.names = "O" -> 3000
    [] code.names = "F" -> 3100
    [] code.names = "S" -> 3500 + code.n
    [] OTHER -> NoPort

\* parse_line_to_addresses: words that name nothing are left out.
Addresses(codes) ==
  SelectSeq([i \in DOMAIN codes |-> GetPortFromCode(codes[i])],
            LAMBDA port : port # NoPort)
=============================================================================
