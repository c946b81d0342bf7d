----------------------------- MODULE KubeletConfig ----------------------------
(***************************************************************************)
(* The two kubelet files of one node (pkg/pki/conf/kubelet): config.yaml,  *)
(* checked as YAML and updated as text, and kubelet.conf, decoded and      *)
(* written back. A write truncates the file and then fills it; the process *)
(* may die, a call may fail and someone may edit a file between any two    *)
(* steps. The lock, the cordon and the kubelet's restart around a pass are *)
(* in RotationLoop; a file that one write may leave stale is Irregular     *)
(* there.                                                                  *)
(***************************************************************************)
EXTENDS Naturals, Sequences, FiniteSets

CONSTANTS
    Want,           \* what the two flags say of the two keys
    Others,         \* the other settings of config.yaml
    Edited,         \* the config.yaml files that editors leave
    Users,          \* the users of kubelet.conf
    NoFile,         \* "no file in hand"
    MaxFaults,      \* bound: calls that fail
    MaxStops,       \* bound: deaths of the process
    MaxEdits,       \* bound: edits
    MaxWrites       \* bound: writes of config.yaml that are counted

Keys    == {"rotateCertificates", "serverTLSBootstrap"}
Configs == {"kubelet.conf", "config.yaml"}

\* A line of config.yaml. The text search finds "key: value" in an exact setting
\* and in a comment, "key:" in a spaced setting (or a quoted one) too; YAML
\* reads the settings and nothing of a comment. What comes after a setting on
\* the same line makes the file unreadable: joined.
Kinds == {"exact", "spaced", "comment", "other", "joined"}
Line  == [kind : Kinds, key : Keys \cup Others, value : BOOLEAN]
File  == [lines : Seq(Line), ended : BOOLEAN]     \* ended: by a newline
EmptyFile == [lines |-> <<>>, ended |-> TRUE]

ASSUME KeysAssumption == Want \in [Keys -> BOOLEAN] /\ Keys \cap Others = {}
\* Files a kubelet accepts, ended by a newline, a comment or a setting of one
\* line, as kubeadm's are.
ASSUME EditedAssumption ==
    /\ Edited \subseteq File
    /\ \A f \in Edited : \A i \in DOMAIN f.lines :
          /\ f.lines[i].kind # "joined"
          /\ f.lines[i].kind = "other" <=> f.lines[i].key \in Others
ASSUME BoundsAssumption ==
    MaxFaults \in Nat /\ MaxStops \in Nat /\ MaxEdits \in Nat /\ MaxWrites \in Nat

ASSUME NoFileAssumption == NoFile \notin Configs

VARIABLES
    configYaml,         \* /var/lib/kubelet/config.yaml
    kubeletConf,        \* /etc/kubernetes/kubelet.conf: its users, and those with inline data
    pc,                 \* "idle", "update", "write", "truncated"
    configsToBeUpdate,
    inHand,             \* the file being updated
    newYaml, newConf,   \* its new content
    base,               \* history: config.yaml as it was last edited
    spoilt,             \* history: files a write was cut short in, or overtook an edit of
    writes,             \* history: how often config.yaml was written since
    faults, stops, edits

files == <<configYaml, kubeletConf>>
passVars == <<pc, configsToBeUpdate, inHand, newYaml, newConf>>
history == <<base, spoilt, writes>>
vars == <<files, passVars, history, faults, stops, edits>>

Conf == [users : SUBSET Users, inline : SUBSET Users]
EmptyConf == [users |-> {}, inline |-> {}]

\* Every variable keeps its type, and there is a file in hand from its read to
\* the end of its write, and only then (kubelet.go:62-76).
TypeOK ==
    /\ configYaml \in File /\ newYaml \in File /\ base \in Edited
    /\ kubeletConf \in Conf /\ newConf \in Conf
    /\ pc \in {"idle", "update", "write", "truncated"}
    /\ configsToBeUpdate \subseteq Configs /\ spoilt \subseteq Configs
    /\ inHand \in configsToBeUpdate \cup {NoFile}
    /\ inHand # NoFile <=> pc \in {"write", "truncated"}
    /\ writes \in 0..MaxWrites
    /\ faults \in 0..MaxFaults /\ stops \in 0..MaxStops /\ edits \in 0..MaxEdits

Init ==
    /\ base \in Edited /\ configYaml = base
    /\ kubeletConf \in {c \in Conf : c.users = Users}
    /\ pc = "idle" /\ configsToBeUpdate = {} /\ inHand = NoFile
    /\ newYaml = EmptyFile /\ newConf = EmptyConf
    /\ spoilt = {} /\ writes = 0
    /\ faults = 0 /\ stops = 0 /\ edits = 0

Fault == faults < MaxFaults /\ faults' = faults + 1

-------------------------------------------------------------------------------
(* The text of config.yaml.                                                *)

LinesWith(f, kinds, k) == {i \in DOMAIN f.lines : f.lines[i].kind \in kinds /\ f.lines[i].key = k}

\* yaml.Unmarshal: does it succeed, and the value of a key; the last line that sets
\* the key counts, and an absent key is false.
Parses(f)   == \A i \in DOMAIN f.lines : f.lines[i].kind # "joined"
Value(f, k) ==
    LET set == LinesWith(f, {"exact", "spaced"}, k)
    IN  \E i \in set : f.lines[i].value /\ \A j \in set : j <= i

\* bytes.Contains "key:", and the places of "key: value".
Contains(f, k)    == LinesWith(f, {"exact", "spaced", "comment"}, k) # {}
Places(f, k, v)   == {i \in LinesWith(f, {"exact", "comment"}, k) : f.lines[i].value = v}
First(places)     == CHOOSE i \in places : \A j \in places : i <= j

\* Mutant of ReplaceOne: the two texts of bytes.Replace are swapped.
ReplaceSwapped(f, k) ==
    LET places == Places(f, k, Want[k])
    IN  IF places = {} THEN f ELSE [f EXCEPT !.lines[First(places)].value = Value(f, k)]

\* bytes.Replace(..., 1) of the value YAML read by the value wanted.
ReplaceOne(f, k) ==
    LET places == Places(f, k, Value(f, k))
    IN  IF places = {} THEN f ELSE [f EXCEPT !.lines[First(places)].value = Want[k]]

EndsInComment(f) == f.lines # <<>> /\ f.lines[Len(f.lines)].kind = "comment"

\* append: what is added to a line without a newline becomes part of it.
AppendKey(f, k) ==
    LET kind == CASE f.ended -> "exact"
                  [] ~f.ended /\ EndsInComment(f) -> "comment"
                  [] OTHER -> "joined"
    IN  [lines |-> Append(f.lines, [kind |-> kind, key |-> k, value |-> Want[k]]),
         ended |-> TRUE]

\* Mutant of UpdateKey: the struct kubeletConfiguration is marshalled back.
MarshalKey(f, k) ==
    IF Value(f, k) = Want[k] THEN f
    ELSE [lines |-> <<[kind |-> "exact", key |-> k, value |-> Want[k]]>>, ended |-> TRUE]

UpdateKey(f, k) ==
    IF Value(f, k) = Want[k] THEN f
    ELSE IF Contains(f, k) THEN ReplaceOne(f, k) ELSE AppendKey(f, k)

\* Mutant of updateVarLibKubeletConfigYaml: it returns after the first change.
UpdateFirstKey(f) ==
    IF Value(f, "rotateCertificates") # Want["rotateCertificates"]
    THEN UpdateKey(f, "rotateCertificates") ELSE UpdateKey(f, "serverTLSBootstrap")

\* One key, then the other.
updateVarLibKubeletConfigYaml(f) == UpdateKey(UpdateKey(f, "rotateCertificates"), "serverTLSBootstrap")

\* The file says what the flags say; one that is not YAML is an error to the check.
Agrees(f) == \A k \in Keys : Value(f, k) = Want[k]
checkVarLibKubeletConfigYaml == Parses(configYaml) /\ ~Agrees(configYaml)

\* kubelet.conf: users with inline certificates are pointed to the rotated file.
checkEtcKubernetesKubeletConf == kubeletConf.inline # {}

\* Mutant of updateEtcKubernetesKubeletConf: the loop changes copies of the users.
UpdateConfCopies(conf) == conf
updateEtcKubernetesKubeletConf(conf) == [conf EXCEPT !.inline = {}]

-------------------------------------------------------------------------------
(* CheckConfig and UpdateConfig.                                           *)

Stale == {c \in Configs : \/ c = "config.yaml" /\ checkVarLibKubeletConfigYaml
                          \/ c = "kubelet.conf" /\ checkEtcKubernetesKubeletConf}

\* A file that cannot be read, or is not YAML, is left out.
CheckConfig ==
    /\ pc = "idle"
    /\ \E unreadable \in SUBSET Stale :
          /\ IF unreadable = {} THEN UNCHANGED faults ELSE Fault
          /\ configsToBeUpdate' = Stale \ unreadable
          /\ pc' = IF Stale \ unreadable = {} THEN "idle" ELSE "update"
    /\ UNCHANGED <<files, inHand, newYaml, newConf, history, stops, edits>>

\* The read and the new content. A file that is not YAML any more, or a call that
\* fails, is an error and the loop goes on with the next file.
ReadFile(c) ==
    /\ pc = "update" /\ c \in configsToBeUpdate
    /\ \/ /\ c = "config.yaml" => Parses(configYaml)
          /\ newYaml' = IF c = "config.yaml" THEN updateVarLibKubeletConfigYaml(configYaml)
                                             ELSE newYaml
          /\ newConf' = IF c = "kubelet.conf" THEN updateEtcKubernetesKubeletConf(kubeletConf)
                                              ELSE newConf
          /\ inHand' = c /\ pc' = "write"
          /\ UNCHANGED <<configsToBeUpdate, faults>>
       \/ /\ \/ c = "config.yaml" /\ ~Parses(configYaml) /\ UNCHANGED faults
             \/ Fault
          /\ configsToBeUpdate' = configsToBeUpdate \ {c}
          /\ UNCHANGED <<pc, inHand, newYaml, newConf>>
    /\ UNCHANGED <<files, history, stops, edits>>

\* The file in hand gets a content.
Put(yaml, conf) ==
    /\ configYaml'  = IF inHand = "config.yaml" THEN yaml ELSE configYaml
    /\ kubeletConf' = IF inHand = "kubelet.conf" THEN conf ELSE kubeletConf

\* WriteFile opens the file with O_TRUNC.
Truncate ==
    /\ pc = "write"
    /\ pc' = "truncated"
    /\ Put(EmptyFile, EmptyConf)
    /\ UNCHANGED <<configsToBeUpdate, inHand, newYaml, newConf, history, faults, stops, edits>>

\* The loop leaves the file in hand.
NextFile ==
    /\ pc' = "update"
    /\ configsToBeUpdate' = configsToBeUpdate \ {inHand}
    /\ inHand' = NoFile
    /\ newYaml' = EmptyFile /\ newConf' = EmptyConf

\* Mutant of WriteFile: the loop does not take the file off the list.
WriteFileAgain ==
    /\ pc = "truncated"
    /\ Put(newYaml, newConf)
    /\ pc' = "update"
    /\ UNCHANGED <<configsToBeUpdate, inHand, newYaml, newConf, history, faults, stops, edits>>

\* Then it writes; a full disk leaves the file empty and returns an error.
WriteFile ==
    /\ pc = "truncated"
    /\ NextFile
    /\ \/ /\ Put(newYaml, newConf)
          /\ writes' = IF inHand = "config.yaml" /\ writes < MaxWrites THEN writes + 1 ELSE writes
          /\ UNCHANGED <<spoilt, faults>>
       \/ Fault /\ spoilt' = spoilt \cup {inHand} /\ UNCHANGED <<files, writes>>
    /\ UNCHANGED <<base, stops, edits>>

\* The end of the loop.
UpdateConfigDone ==
    /\ pc = "update" /\ configsToBeUpdate = {}
    /\ pc' = "idle"
    /\ UNCHANGED <<files, configsToBeUpdate, inHand, newYaml, newConf, history, faults, stops,
                   edits>>

-------------------------------------------------------------------------------
(* The environment.                                                        *)

\* The process ends and the pod starts again.
Stop ==
    /\ pc # "idle"
    /\ stops < MaxStops /\ stops' = stops + 1
    /\ pc' = "idle" /\ configsToBeUpdate' = {} /\ inHand' = NoFile
    /\ newYaml' = EmptyFile /\ newConf' = EmptyConf
    /\ spoilt' = IF pc = "truncated" THEN spoilt \cup {inHand} ELSE spoilt
    /\ UNCHANGED <<files, base, writes, faults, edits>>

\* Someone writes config.yaml anew; a write that is under way will overtake it.
EditYaml(f) ==
    /\ edits < MaxEdits /\ edits' = edits + 1
    /\ configYaml' = f /\ base' = f /\ writes' = 0
    /\ spoilt' = IF inHand = "config.yaml" THEN spoilt \cup {"config.yaml"}
                                           ELSE spoilt \ {"config.yaml"}
    /\ UNCHANGED <<kubeletConf, passVars, faults, stops>>

\* kubeadm writes kubelet.conf anew, with inline data.
EditConf ==
    /\ edits < MaxEdits /\ edits' = edits + 1
    /\ kubeletConf' = [users |-> Users, inline |-> Users]
    /\ spoilt' = IF inHand = "kubelet.conf" THEN spoilt \cup {"kubelet.conf"}
                                            ELSE spoilt \ {"kubelet.conf"}
    /\ UNCHANGED <<configYaml, passVars, base, writes, faults, stops>>

UpdateConfig == (\E c \in Configs : ReadFile(c)) \/ Truncate \/ WriteFile \/ UpdateConfigDone

Next == CheckConfig \/ UpdateConfig \/ Stop \/ EditConf \/ \E f \in Edited : EditYaml(f)

Spec == Init /\ [][Next]_vars

\* The loop ticks and goes on whenever the pod runs, and the pod is restarted.
FairSpec == Spec /\ WF_vars(CheckConfig) /\ WF_vars(UpdateConfig)

-------------------------------------------------------------------------------
(* Properties.                                                             *)


\* The other settings a file has.
Settings(f) == {o \in Others : LinesWith(f, {"other"}, o) # {}}

\* Between writes, and unless a write was cut short or overtook an edit, the
\* files keep what is not kucero's (exec.go:91, 165): config.yaml stays readable
\* with all its other settings, however often it is updated and whatever its
\* comments and spacing, if it ended with a newline or a comment (exec.go:146).
SettingsKept ==
    /\ "config.yaml" \notin spoilt /\ (base.ended \/ EndsInComment(base))
       /\ ~(pc = "truncated" /\ inHand = "config.yaml")
           => Parses(configYaml) /\ Settings(base) \subseteq Settings(configYaml)
    /\ "kubelet.conf" \notin spoilt /\ ~(pc = "truncated" /\ inHand = "kubelet.conf")
           => kubeletConf.users = Users

\* A file whose text the update understands: each key is set in kubeadm's form, or
\* nothing mentions it and the file has a final newline.
Regular(f) ==
    /\ Parses(f)
    /\ \A k \in Keys : \/ LinesWith(f, {"exact"}, k) # {} /\ LinesWith(f, {"spaced"}, k) = {}
                       \/ f.ended /\ ~Contains(f, k)
                       \/ Value(f, k) = Want[k]

\* The texts that say of a key what the flag does not.
Wrong(f, k) == Places(f, k, ~Want[k])

\* What bounds the number of passes (exec.go:127-166): every write of a regular
\* file leaves it regular and corrects at least one wrong text of each key that
\* does not agree yet, and no key without such a text disagrees after a write. So
\* it takes as many writes as the file had wrong texts of the key, or one, and
\* what agrees stays so, whatever fails, dies or is retried.
EveryWriteRepairs ==
    "config.yaml" \notin spoilt /\ Regular(base)
    /\ ~(pc = "truncated" /\ inHand = "config.yaml")
        => /\ Regular(configYaml)
           /\ \A k \in Keys :
                 \/ Value(configYaml, k) = Want[k]
                 \/ /\ Cardinality(Wrong(configYaml, k)) + writes <= Cardinality(Wrong(base, k))
                    /\ writes > 0 => Wrong(configYaml, k) # {}

\* A file that is regular between two passes comes to say what the flags say,
\* unless it is edited before (exec.go:127-166), although the check reads YAML and
\* the update replaces the first text that looks right, which may be a comment,
\* and although passes fail and die half-way.
Converges ==
    \A n \in 0..MaxEdits :
        (pc = "idle" /\ Regular(configYaml) /\ edits = n)
            ~> (edits # n \/ (pc = "idle" /\ Parses(configYaml) /\ Agrees(configYaml)))

\* Inline certificates are replaced by the path of the rotated file in the end
\* (exec.go:76-95), and the users that had them are still there, unless a write of
\* the file was cut short or overtook an edit.
InlineReplaced ==
    (pc = "idle" /\ kubeletConf.inline # {})
        ~> /\ pc = "idle" /\ kubeletConf.inline = {}
           /\ kubeletConf.users = Users \/ "kubelet.conf" \in spoilt
===============================================================================
