----------------------------- MODULE Parameters -----------------------------
(***************************************************************************)
(* The settings in the serial flash (App/Parameters.c over SPIFlash.c): a  *)
(* journal that moves through FLASH_SECTOR_COUNT sectors, one record per   *)
(* sector, and is read at boot by InitAppConfig().  The power may fail     *)
(* between any two commands of the flash.  The page of the HTTP server     *)
(* that changes the settings (HTTPPostConfig()) writes a record of its own *)
(* form into the first sector.                                             *)
(***************************************************************************)
EXTENDS Naturals, FiniteSetsExt

CONSTANTS
  FLASH_SECTOR_COUNT,
  Configs,    \* values of AppConfig
  Default,    \* that of LoadDefaultParameters()
  NoConfig    \* what a sector holds whose record CheckAppConfig() refuses

ASSUME ParametersAssumption ==
  /\ FLASH_SECTOR_COUNT \in Nat /\ FLASH_SECTOR_COUNT > 2
  /\ Default \in Configs /\ NoConfig \notin Configs

VARIABLES
  sectors,            \* the record of each sector
  AppConfig,
  curParameterStart,  \* the sector of the record in use
  at,                 \* the next command of the call that runs, or "idle", "off"
  promised,           \* history: the settings that the next boot may bring
  posted              \* history: the settings of the page, until a save or a boot

parameterVars == <<sectors, AppConfig, curParameterStart, at, promised, posted>>

Sectors == 0 .. FLASH_SECTOR_COUNT - 1
INVALID_PARAMATER_START == FLASH_SECTOR_COUNT
Points == {"idle", "off", "program", "erase", "erase older"}

Valid == {s \in Sectors : sectors[s] # NoConfig}
NextSector(s) == IF s + 1 = FLASH_SECTOR_COUNT THEN 0 ELSE s + 1
\* Seeded fault: the record in use is written over.
TargetInPlace == IF curParameterStart = INVALID_PARAMATER_START THEN 0 ELSE curParameterStart
Target == IF curParameterStart = INVALID_PARAMATER_START THEN 0
          ELSE NextSector(curParameterStart)

\* The first write to a sector erases it (_EraseSector()).
Erased(s) == [sectors EXCEPT ![s] = NoConfig]

ParametersInit ==
  /\ sectors = [s \in Sectors |-> NoConfig]
  /\ AppConfig = Default /\ curParameterStart = INVALID_PARAMATER_START
  /\ at = "off" /\ promised = {Default} /\ posted = NoConfig

-----------------------------------------------------------------------------
(* SaveParameters(): the next sector is erased and programmed, then the     *)
(* last one is erased.  Until then a boot may bring the old settings.       *)

SaveErases(config) ==
  /\ AppConfig' = config
  /\ sectors' = Erased(Target)
  /\ at' = "program" /\ promised' = promised \cup {config}
  /\ UNCHANGED <<curParameterStart, posted>>

\* An application changes AppConfig and saves it.
SaveParameters == at = "idle" /\ \E config \in Configs : SaveErases(config)

SavePrograms ==
  /\ at = "program"
  /\ sectors' = [sectors EXCEPT ![Target] = AppConfig]
  /\ promised' = {AppConfig} /\ posted' = NoConfig
  /\ IF curParameterStart = INVALID_PARAMATER_START
     THEN at' = "idle" /\ curParameterStart' = Target
     ELSE at' = "erase" /\ UNCHANGED curParameterStart
  /\ UNCHANGED AppConfig

SaveErasesLast ==
  /\ at = "erase" /\ at' = "idle"
  /\ sectors' = Erased(curParameterStart)
  /\ curParameterStart' = NextSector(curParameterStart)
  /\ UNCHANGED <<AppConfig, promised, posted>>

ClearParameters ==
  /\ at = "idle" /\ curParameterStart \in Sectors
  /\ sectors' = Erased(curParameterStart)
  /\ curParameterStart' = INVALID_PARAMATER_START
  /\ promised' = {Default}
  /\ UNCHANGED <<AppConfig, at, posted>>

-----------------------------------------------------------------------------
(* LoadParameters(): of two records in neighbouring sectors the second is   *)
(* the newer one, the first one after the last sector included.             *)

First == Min(Valid)
Second == Min(Valid \ {First})
Several == Valid # {} /\ Valid # {First}
Follows(older, newer) ==
  IF older < newer THEN older + 1 = newer
  ELSE newer = 0 /\ older + 1 = FLASH_SECTOR_COUNT

Boots(newer, then) ==
  /\ AppConfig' = sectors[newer] /\ curParameterStart' = newer
  /\ at' = then /\ promised' = {sectors[newer]} /\ posted' = NoConfig
  /\ UNCHANGED sectors

LoadOne == at = "off" /\ Valid # {} /\ ~Several /\ Boots(First, "idle")

LoadNewer ==
  /\ at = "off" /\ Several
  /\ \/ Follows(First, Second) /\ Boots(Second, "erase older")
     \/ ~Follows(First, Second) /\ Follows(Second, First) /\ Boots(First, "erase older")

\* The erasure of LoadParameters() comes before curParameterStart is set.
Older == CHOOSE s \in Valid : s # curParameterStart
LoadErasesOlder ==
  /\ at = "erase older" /\ at' = "idle"
  /\ sectors' = Erased(Older)
  /\ UNCHANGED <<AppConfig, curParameterStart, promised, posted>>

\* InitAppConfig() saves the defaults when there is nothing to load.
Unreadable == Valid = {} \/ (Several /\ ~Follows(First, Second) /\ ~Follows(Second, First))
LoadDefaultParameters ==
  /\ at = "off" /\ Unreadable
  /\ AppConfig' = Default /\ curParameterStart' = INVALID_PARAMATER_START
  /\ sectors' = Erased(0)
  /\ at' = "program" /\ promised' = {Default} /\ posted' = NoConfig

-----------------------------------------------------------------------------
(* HTTPPostConfig() writes 0x60 and the new settings from address 0 on,     *)
(* which CheckAppConfig() does not know, and has the board restarted.       *)
HTTPPostConfig ==
  /\ at = "idle"
  /\ \E config \in Configs : posted' = config
  /\ sectors' = Erased(0)
  /\ UNCHANGED <<AppConfig, curParameterStart, at, promised>>

PowerFails ==
  /\ at # "off" /\ at' = "off"
  /\ UNCHANGED <<sectors, AppConfig, curParameterStart, promised, posted>>

Boot == LoadOne \/ LoadNewer \/ LoadDefaultParameters
ParametersNext ==
  \/ SaveParameters \/ SavePrograms \/ SaveErasesLast \/ ClearParameters
  \/ Boot \/ LoadErasesOlder \/ HTTPPostConfig \/ PowerFails

ParametersSpec == ParametersInit /\ [][ParametersNext]_parameterVars

-----------------------------------------------------------------------------
ParametersTypeOK ==
  /\ sectors \in [Sectors -> Configs \cup {NoConfig}]
  /\ AppConfig \in Configs
  /\ curParameterStart \in Sectors \cup {INVALID_PARAMATER_START}
  /\ at \in Points
  /\ promised \in SUBSET Configs /\ promised # {}
  /\ posted \in Configs \cup {NoConfig}

\* Whenever the power fails, in the middle of a save or of the repair of an
\* interrupted one, the next boot finds the settings of the last completed
\* save or of the one that was interrupted, and never falls back to defaults.
SavedSettingsSurvive ==
  [][Boot /\ posted = NoConfig => AppConfig' \in promised]_parameterVars

\* The settings of the page are those of the next boot.
PostedSettingsSurvive ==
  [][Boot /\ posted # NoConfig => AppConfig' = posted]_parameterVars
=============================================================================
