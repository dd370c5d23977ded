---------------------------- MODULE MCProcesses ----------------------------
(* The parts of goforge that run goroutines, processes or a conversation, for TLC.
   They share no state, so what one does is independent of the others: a behaviour
   of this module is a behaviour of one part, with the others where they start.  *)
EXTENDS ManagedProcess, AppRun, DevServices, SMTPSender, ResourceGenerator,
        EventEmitter

CONSTANT Parts   \* the parts this run explores

VARIABLE part

MCErrors == {Wrap(Cancelled), Join(Wrap(Cancelled), Failure)}
MCWants == [g \in Generators |-> IF g = "g2" THEN "tag" ELSE "post"]

Init ==
  /\ part \in Parts
  /\ ManagedInit /\ AppInit /\ DevInit /\ GeneratorInit
  /\ EmitterInit
  /\ part # "managed" => piped /\ platform = "unix"
  /\ SMTPInit
  /\ part # "smtp" => config.auth /\ config.mode = "implicit" /\ config.local /\ valid /\ advertised

Next ==
  /\ UNCHANGED part
  /\ \/ /\ part = "managed" /\ ManagedNext
        /\ UNCHANGED <<appVars, devVars, smtpVars, generatorVars, emitterVars>>
     \/ /\ part = "app" /\ AppNext
        /\ UNCHANGED <<managedVars, devVars, smtpVars, generatorVars, emitterVars>>
     \/ /\ part = "dev" /\ DevNext
        /\ UNCHANGED <<managedVars, appVars, smtpVars, generatorVars, emitterVars>>
     \/ /\ part = "smtp" /\ SMTPNext
        /\ UNCHANGED <<managedVars, appVars, devVars, generatorVars, emitterVars>>
     \/ /\ part = "generator" /\ GeneratorNext
        /\ UNCHANGED <<managedVars, appVars, devVars, smtpVars, emitterVars>>
     \/ /\ part = "emitter" /\ EmitterNext
        /\ UNCHANGED <<managedVars, appVars, devVars, smtpVars, generatorVars>>

allVars == <<part, managedVars, appVars, devVars, smtpVars, generatorVars, emitterVars>>

Spec ==
  /\ Init /\ [][Next]_allVars
  /\ ManagedFairness /\ AppFairness /\ DevFairness /\ SMTPFairness
  /\ GeneratorFairness /\ EmitterFairness
=============================================================================
