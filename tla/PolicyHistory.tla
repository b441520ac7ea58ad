---------------------------- MODULE PolicyHistory ----------------------------
(***************************************************************************)
(* PolicyRouting with the history of what was asked of the policy API.     *)
(***************************************************************************)
EXTENDS PolicyRouting

CONSTANT NoSetting

VARIABLES asked,     \* the device of the last setting, if it was answered with success
          calm       \* no setting was being made since the client's call began

HistoryInit ==
    /\ Init
    /\ asked = NoSetting
    /\ calm = [c \in Client |-> FALSE]

HistoryNext ==
    /\ Next
    /\ asked' = IF spc = "done" /\ spc' = "idle" THEN set.dev
                ELSE IF spc # "idle" /\ spc' = "idle" THEN NoSetting ELSE asked
    /\ calm' = [c \in Client |->
                   IF spc' # "idle" THEN FALSE
                   ELSE (cpc[c] = "idle" /\ cpc'[c] # "idle") \/ calm[c]]

HistorySpec == HistoryInit /\ [][HistoryNext]_<<vars, asked, calm>>

\* A device set with the policy API is used by every later inference until another is
\* set: "it will always take effect before you explicitly change it".
SettingKept ==
    \A c \in Client :
        cpc[c] = "infer" /\ calm[c] /\ asked # NoSetting /\ went[c] \notin {"server", "own"}
            => went[c] = asked
=============================================================================
