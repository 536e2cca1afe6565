SPECIFICATION Spec
CONSTANTS
  speakers = speakers
  hdmi = hdmi
  none = none
  nothing = nothing
  Configs <- ThemeOnly
  Machines <- TheMachines
  Others = {"media"}
  Devices = {speakers, hdmi}
  Channels <- TheChannels
  Volumes = {0, 6, 8}
  Threshold = 2
  Batteries <- TheBatteries
  Values = {1, 2}
  NoDevice = none
  Nothing = nothing
  DndEvery = 2
  MaxActs = 1
PROPERTY DndFollowed
CHECK_DEADLOCK FALSE
