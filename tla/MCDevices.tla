------------------------- MODULE MCDevices -------------------------
(* The programs that drive devices and keep time: one of them runs, the *)
(* others stay as they were started.  Each one's fairness is its own.   *)
EXTENDS Pcm, RGBMatrix, Park, Watchdog, Camera

\* Three tracks, the middle one twice as long, of four ticks a unit
CTracks == <<1, 2, 1>>
CStarts == <<0, 4, 12, 16>>

VARIABLE program

allVars == <<program, vars, rgbVars, parkVars, dogVars, camVars>>

DevInit ==
  /\ program \in {"pcm", "rgb", "park", "dog", "cam"}
  /\ Init /\ RgbInit
  /\ ParkInit
  /\ DogInit
  /\ CamInit
  /\ program # "pcm" => method = "write"
  /\ program # "rgb" => rgb_now = 0
  /\ program # "dog" => dog_gtk

RunPcm == program = "pcm" /\ Next /\ UNCHANGED <<program, rgbVars, parkVars, dogVars, camVars>>
RunRgb == program = "rgb" /\ RgbNext /\ UNCHANGED <<program, vars, parkVars, dogVars, camVars>>
RunPark == program = "park" /\ ParkNext /\ UNCHANGED <<program, vars, rgbVars, dogVars, camVars>>
RunDog == program = "dog" /\ DogNext /\ UNCHANGED <<program, vars, rgbVars, parkVars, camVars>>
RunCam == program = "cam" /\ CamNext /\ UNCHANGED <<program, vars, rgbVars, parkVars, dogVars>>

DevNext == RunPcm \/ RunRgb \/ RunPark \/ RunDog \/ RunCam

DevSpec ==
  /\ DevInit /\ [][DevNext]_allVars
  /\ WF_allVars(program = "pcm" /\ Player /\ UNCHANGED <<program, rgbVars, parkVars, dogVars, camVars>>)
  /\ WF_allVars(program = "pcm" /\ Play /\ UNCHANGED <<program, rgbVars, parkVars, dogVars, camVars>>)
  /\ WF_allVars(program = "pcm" /\ Release /\ UNCHANGED <<program, rgbVars, parkVars, dogVars, camVars>>)
  /\ WF_allVars(program = "park" /\ ParkProcess /\ UNCHANGED <<program, vars, rgbVars, dogVars, camVars>>)
  /\ WF_allVars(program = "park" /\ ParkArrive /\ UNCHANGED <<program, vars, rgbVars, dogVars, camVars>>)
  /\ WF_allVars(program = "dog" /\ DogCheck /\ UNCHANGED <<program, vars, rgbVars, parkVars, camVars>>)
  /\ WF_allVars(program = "dog" /\ DogSecond /\ UNCHANGED <<program, vars, rgbVars, parkVars, camVars>>)
  /\ WF_allVars(program = "dog" /\ DogMessage /\ UNCHANGED <<program, vars, rgbVars, parkVars, camVars>>)

-----------------------------------------------------------------------------
\* The players, the panel, the sensor and the camera keep their types.
DevTypeOK == TypeOK /\ RgbTypeOK /\ ParkTypeOK /\ DogTypeOK /\ CamTypeOK
=============================================================================
