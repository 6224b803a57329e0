SPECIFICATION Spec
CONSTANTS
  Default = Default
  Custom = Custom
  Cut = Cut
  None = None
  TunnelValues = {Cut}
  MayFail = {"nvs_open", "mount", "xTaskCreate"}
  MayRefuse = {"mic"}
  MaxCustom = 1
INVARIANTS
  QuietMeansAgreed
  PromiseKept
