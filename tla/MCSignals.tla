------------------------------ MODULE MCSignals ------------------------------
(* Instances of Signals for TLC. *)
EXTENDS Signals

\* A first message that says nothing, and one that is a signal or an instruction and may be
\* edited into the other.
MCSays  == <<{"hold"}, {"long", "manage"}>>
MCEdits == <<0, 1>>

\* One message with a chart, edited once.
MCOneSays == <<{"long", "hold"}>>
MCOneEdit == <<1>>

====
