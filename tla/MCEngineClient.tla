---------------------------- MODULE MCEngineClient ----------------------------
(* The connection of EngineClient carries the frames of Protocol. *)
EXTENDS EngineClient, Protocol

(* What a live connection carries is heard as what it says, whatever fields the  *)
(* other end lacks or has more: the values of the fields both know, defaults for *)
(* the others (engine_client.ts: 0 from an old engine keeps the fallback rate).  *)
(* So is a message that is all defaults: PLAY, stopped at 0, no slot playing.  A *)
(* tab hears nothing of a payload it does not know or with a number it cannot    *)
(* hold (protocol.ts, encodeMessage and decodeMessage).                          *)
FramesAreUnderstood == \A s \in Socket : Live(s) => Misheard = {}
===============================================================================
