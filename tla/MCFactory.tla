----------------------------- MODULE MCFactory -----------------------------
(* An instance of MessageFactory for TLC: a class that two translation      *)
(* units register, and two classes with one name.                           *)
EXTENDS MessageFactory

MCRegisters == {"login1", "login2", "text", "emoji", "ping"}
MCClass == [r \in MCRegisters |-> IF r \in {"login1", "login2"} THEN "login" ELSE r]
MCTypeOf == [c \in {"login", "text", "emoji", "ping"} |->
               IF c = "emoji" THEN "text" ELSE c]
=============================================================================
