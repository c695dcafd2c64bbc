\* The acquisition service and the meter tester on one serial device, with
\* the adapter and the meter coming and going; the meter answers at the
\* last two of three settings.
SPECIFICATION FairSpec
CONSTANTS
  Service = service
  Tester = tester
  Clients = {service, tester}
  NumRegs = 2
  Backoff <- BackoffSteps
  Timeout = 1
  Delays = {1}
  NumSettings = 3
  Answers = {2, 3}
  Default = 2
  Critical = {2}
INVARIANTS TypeOK ReadingBounded NeverStranded PortReleased ScanSound DecodedInTwosComplement
PROPERTIES ScanComplete TestReturns ReadingsResume
